---------------------------- MODULE Spec2Model ----------------------------
(***************************************************************************)
(* Verification model of the schema-driven form engine: the form reducer   *)
(* (src/src/schema/types.ts), the submit handler of FormRenderer, the      *)
(* validation pipeline with its debounced async validator, and the         *)
(* useAutosave coordinator.                                                *)
(***************************************************************************)
EXTENDS Integers, Sequences, FiniteSets, TLC

VARIABLES
  state,       \* FormStateShape held by useReducer(formReducer, ...)
  schema,      \* the FormSchema prop (its sections, in order)
  last,        \* the operation reduced last (observation only)
  prev,        \* the state that operation was applied to (observation only)
  submitted,   \* the values snapshots onSubmit has been called with
  steps,       \* number of operations performed so far
  \* --- one validator made by createAsyncValidator(url, debounceMs) ---
  now,             \* the clock, in ticks
  calls,           \* the validate(value) calls made, with their promises
  requests,        \* the fetch requests issued, in order
  timeoutId,       \* debounce's timeoutId: 0 for null, else the id of a timer
  abortController, \* debounce's abortController: 0 for null, else its id
  timers,          \* the timers that are set and have neither fired nor been cleared
  aborted,         \* the AbortControllers whose abort() has been called
  cancels,         \* the cancel() calls made
  \* --- one component that autosaves: useAutosave or FormRendererInner ---
  host,        \* which of the two it is
  props,       \* what the latest render received: values, isDirty, enabled, currentVersion
  hook,        \* useAutosave's AutosaveState
  versionRef,  \* versionRef.current
  timeoutRef,  \* the timer the autosave effect has set, with what its callback closes over
  saves,       \* the invocations of the save function (onSave / onAutosave)
  clock,       \* the clock, in ticks
  lastChange,  \* when the values last changed (observation only)
  event,       \* the event handled last (observation only)
  \* --- one call of a function of the validation pipeline ---
  args,        \* the function called and its arguments
  returned     \* what the call returned

formVars == <<state, schema, last, prev, submitted, steps>>

asyncVars == <<now, calls, requests, timeoutId, abortController, timers, aborted, cancels>>

autosaveVars == <<host, props, hook, versionRef, timeoutRef, saves, clock, lastChange, event>>

callVars == <<args, returned>>

vars == <<formVars, asyncVars, autosaveVars, callVars>>

\* What the steps of each part leave alone.
exceptForm == <<asyncVars, autosaveVars, callVars>>

exceptAsync == <<formVars, autosaveVars, callVars>>

exceptAutosave == <<formVars, asyncVars, callVars>>

exceptCall == <<formVars, asyncVars, autosaveVars>>

(***************************************************************************)
(* JavaScript values.  Every FieldValue is a record of one shape, so that  *)
(* TLA+ equality of two values is JavaScript's === on them: t is the       *)
(* typeof tag, s the characters of a string, n the number (or 0/1 of a     *)
(* boolean, or the identity of an array object) and a the elements of an   *)
(* array.                                                                  *)
(***************************************************************************)
Undefined == [t |-> "undefined", s |-> <<>>, n |-> 0, a |-> <<>>]
Null      == [t |-> "null",      s |-> <<>>, n |-> 0, a |-> <<>>]
Str(cs)   == [t |-> "string",    s |-> cs,   n |-> 0, a |-> <<>>]
Num(k)    == [t |-> "number",    s |-> <<>>, n |-> k, a |-> <<>>]
Bool(b)   == [t |-> "boolean",   s |-> <<>>, n |-> IF b THEN 1 ELSE 0, a |-> <<>>]
Arr(id, elems) == [t |-> "array", s |-> <<>>, n |-> id, a |-> elems]

StrictEq(x, y) == x = y

\* A call evaluates its arguments before the function's body: Call(F, a) is
\* F at the value of a, Call2 and Call3 the same for two and three arguments.
Call(F(_), a) == CHOOSE y \in {F(x) : x \in {a}} : TRUE

Call2(F(_, _), a, b) == CHOOSE y \in {F(x1, x2) : x1 \in {a}, x2 \in {b}} : TRUE

Call3(F(_, _, _), a, b, c) ==
  CHOOSE y \in {F(x1, x2, x3) : x1 \in {a}, x2 \in {b}, x3 \in {c}} : TRUE

IsNullish(x) == x.t \in {"undefined", "null"}

\* Strings used by the model, as their characters.
S_empty == <<>>
S_blank == <<" ", " ">>
S_yes   == <<"y", "e", "s">>
S_no    == <<"n", "o">>

(***************************************************************************)
(* FormValues and the other JavaScript objects used as maps: a function    *)
(* whose DOMAIN is the object's own keys.                                  *)
(***************************************************************************)
EmptyObj == [k \in {} |-> Undefined]

Get(obj, k) == IF k \in DOMAIN obj THEN obj[k] ELSE Undefined

\* { ...a, ...b }
Spread(a, b) == [k \in DOMAIN a \cup DOMAIN b |-> IF k \in DOMAIN b THEN b[k] ELSE a[k]]

\* { ...a, [k]: v }
Put(a, k, v) == [x \in DOMAIN a \cup {k} |-> IF x = k THEN v ELSE a[x]]

\* instanceIndex === undefined
NoIndex == -1

createFieldState(value) ==
  [value |-> IF value.t = "undefined" THEN Null ELSE value,
   touched |-> FALSE, dirty |-> FALSE, validating |-> FALSE, errors |-> <<>>]

getFieldKey(fieldId, instanceIndex) ==
  IF instanceIndex # NoIndex
    THEN fieldId \o "[" \o ToString(instanceIndex) \o "]"
    ELSE fieldId

\* state.fields[key] || createFieldState()
FieldOrDefault(fields, key) ==
  IF key \in DOMAIN fields THEN fields[key] ELSE createFieldState(Undefined)

InitialAutosave ==
  [draftLoaded |-> FALSE, lastSaved |-> Null, hasConflict |-> FALSE,
   localValues |-> Null, savedValues |-> Null,
   localTimestamp |-> Null, savedTimestamp |-> Null]

createInitialState(initialValues) ==
  [values |-> initialValues,
   fields |-> EmptyObj,
   repeatableSections |-> EmptyObj,
   initialValues |-> initialValues,
   isSubmitting |-> FALSE,
   submitCount |-> 0,
   autosave |-> InitialAutosave]

(***************************************************************************)
(* formReducer, one operator per case of its switch.  s is the state and   *)
(* p the action's payload.                                                 *)
(***************************************************************************)
\* Variant: the field's stored errors are kept.
ReduceSetFieldValueKeepsErrors(s, p) ==
  LET key == getFieldKey(p.fieldId, p.instanceIndex)
      existingField == FieldOrDefault(s.fields, key)
      initialValue == Get(s.initialValues, p.fieldId)
      isDirty == ~StrictEq(p.value, initialValue)
  IN [s EXCEPT
        !.values = Put(s.values, p.fieldId, p.value),
        !.fields = Put(s.fields, key,
                       [existingField EXCEPT !.value = p.value,
                                             !.dirty = isDirty])]

ReduceSetFieldValue(s, p) ==
  LET key == getFieldKey(p.fieldId, p.instanceIndex)
      existingField == FieldOrDefault(s.fields, key)
      initialValue == Get(s.initialValues, p.fieldId)
      isDirty == ~StrictEq(p.value, initialValue)
  IN [s EXCEPT
        !.values = Put(s.values, p.fieldId, p.value),
        !.fields = Put(s.fields, key,
                       [existingField EXCEPT !.value = p.value,
                                             !.dirty = isDirty,
                                             !.errors = <<>>])]

ReduceSetFieldTouched(s, p) ==
  LET key == getFieldKey(p.fieldId, p.instanceIndex)
      existingField == FieldOrDefault(s.fields, key)
  IN [s EXCEPT !.fields = Put(s.fields, key, [existingField EXCEPT !.touched = p.touched])]

\* Variant: the validating flag is left as it is.
ReduceSetFieldErrorKeepsValidating(s, p) ==
  LET key == getFieldKey(p.fieldId, p.instanceIndex)
      existingField == FieldOrDefault(s.fields, key)
  IN [s EXCEPT !.fields = Put(s.fields, key, [existingField EXCEPT !.errors = p.errors])]

ReduceSetFieldError(s, p) ==
  LET key == getFieldKey(p.fieldId, p.instanceIndex)
      existingField == FieldOrDefault(s.fields, key)
  IN [s EXCEPT !.fields = Put(s.fields, key,
                              [existingField EXCEPT !.errors = p.errors,
                                                    !.validating = FALSE])]

ReduceClearFieldError(s, p) ==
  LET key == getFieldKey(p.fieldId, p.instanceIndex)
  IN IF key \notin DOMAIN s.fields
       THEN s
       ELSE [s EXCEPT !.fields = Put(s.fields, key, [s.fields[key] EXCEPT !.errors = <<>>])]

ReduceSetFieldValidating(s, p) ==
  LET key == getFieldKey(p.fieldId, p.instanceIndex)
      existingField == FieldOrDefault(s.fields, key)
  IN [s EXCEPT !.fields = Put(s.fields, key,
                              [existingField EXCEPT !.validating = p.validating])]

\* Variant: the baseline is never replaced.
ReduceSetValuesKeepsBaseline(s, p) ==
  LET updatedFields ==
        [k \in DOMAIN s.fields \cup DOMAIN p.values |->
           IF k \in DOMAIN p.values
             THEN [FieldOrDefault(s.fields, k) EXCEPT
                     !.value = p.values[k],
                     !.dirty = IF p.isInitial
                                 THEN FALSE
                                 ELSE ~StrictEq(p.values[k], Get(s.initialValues, k))]
             ELSE s.fields[k]]
  IN [s EXCEPT
        !.values = Spread(s.values, p.values),
        !.fields = updatedFields]

ReduceSetValues(s, p) ==
  LET updatedFields ==
        [k \in DOMAIN s.fields \cup DOMAIN p.values |->
           IF k \in DOMAIN p.values
             THEN [FieldOrDefault(s.fields, k) EXCEPT
                     !.value = p.values[k],
                     !.dirty = IF p.isInitial
                                 THEN FALSE
                                 ELSE ~StrictEq(p.values[k], Get(s.initialValues, k))]
             ELSE s.fields[k]]
  IN [s EXCEPT
        !.values = Spread(s.values, p.values),
        !.fields = updatedFields,
        !.initialValues = IF p.isInitial THEN p.values ELSE s.initialValues]

\* Variant: the repeatable sections survive the reset.
ReduceResetFormKeepsSections(s, p) ==
  LET resetValues == IF p.hasValues THEN p.values ELSE s.initialValues
      freshFields == [k \in DOMAIN resetValues |-> createFieldState(resetValues[k])]
  IN [s EXCEPT
        !.values = resetValues,
        !.fields = freshFields,
        !.isSubmitting = FALSE]

\* Variant: the reset starts a fresh session for the reset values.
ReduceResetFormFreshSession(s, p) ==
  createInitialState(IF p.hasValues THEN p.values ELSE s.initialValues)

\* p.hasValues is FALSE for resetForm() called without values.
ReduceResetForm(s, p) ==
  LET resetValues == IF p.hasValues THEN p.values ELSE s.initialValues
      freshFields == [k \in DOMAIN resetValues |-> createFieldState(resetValues[k])]
  IN [s EXCEPT
        !.values = resetValues,
        !.fields = freshFields,
        !.repeatableSections = EmptyObj,
        !.isSubmitting = FALSE]

\* Variant: every SET_SUBMITTING counts.
ReduceSetSubmittingCountsAll(s, p) ==
  [s EXCEPT
     !.isSubmitting = p.submitting,
     !.submitCount = s.submitCount + 1]

ReduceSetSubmitting(s, p) ==
  [s EXCEPT
     !.isSubmitting = p.submitting,
     !.submitCount = IF p.submitting THEN s.submitCount + 1 ELSE s.submitCount]

ReduceSetFormErrors(s, p) ==
  [s EXCEPT !.fields =
     [k \in DOMAIN s.fields \cup DOMAIN p.errors |->
        IF k \in DOMAIN p.errors
          THEN [FieldOrDefault(s.fields, k) EXCEPT !.errors = p.errors[k]]
          ELSE s.fields[k]]]

ReduceClearAllErrors(s) ==
  [s EXCEPT !.fields = [k \in DOMAIN s.fields |-> [s.fields[k] EXCEPT !.errors = <<>>]]]

NoSection == [instances |-> <<>>]

SectionOrEmpty(sections, sectionId) ==
  IF sectionId \in DOMAIN sections THEN sections[sectionId] ELSE NoSection

ReduceAddSectionInstance(s, p) ==
  LET existingSection == SectionOrEmpty(s.repeatableSections, p.sectionId)
      newInstanceFields ==
        [k \in DOMAIN p.defaultValues |-> createFieldState(p.defaultValues[k])]
  IN [s EXCEPT !.repeatableSections =
        Put(s.repeatableSections, p.sectionId,
            [instances |-> Append(existingSection.instances, newInstanceFields)])]

\* Variant: the last instance goes, whatever the index.
FilterOutLast(instances, instanceIndex) ==
  IF instanceIndex \in 0..(Len(instances) - 1)
    THEN SubSeq(instances, 1, Len(instances) - 1)
    ELSE instances

\* instances.filter((_, index) => index !== instanceIndex), indices from 0
FilterOut(instances, instanceIndex) ==
  LET keep == {i \in 1..Len(instances) : i - 1 # instanceIndex}
      pos(j) == CHOOSE i \in keep : Cardinality({x \in keep : x <= i}) = j
  IN [j \in 1..Cardinality(keep) |-> instances[pos(j)]]

\* Variant: the field states of the removed instance go with it.
ReduceRemoveSectionInstanceDropsFields(s, p) ==
  IF p.sectionId \notin DOMAIN s.repeatableSections
    THEN s
    ELSE [s EXCEPT
            !.repeatableSections =
              Put(s.repeatableSections, p.sectionId,
                  [instances |-> FilterOut(s.repeatableSections[p.sectionId].instances,
                                           p.instanceIndex)]),
            !.fields =
              [k \in DOMAIN s.fields \ {getFieldKey(f, p.instanceIndex) : f \in DOMAIN s.values}
                 |-> s.fields[k]]]

ReduceRemoveSectionInstance(s, p) ==
  IF p.sectionId \notin DOMAIN s.repeatableSections
    THEN s
    ELSE [s EXCEPT !.repeatableSections =
            Put(s.repeatableSections, p.sectionId,
                [instances |-> FilterOut(s.repeatableSections[p.sectionId].instances,
                                         p.instanceIndex)])]

ReduceSetDraftLoaded(s, p) ==
  [s EXCEPT !.autosave = [s.autosave EXCEPT !.draftLoaded = p.loaded]]

ReduceSetLastSaved(s, p) ==
  [s EXCEPT !.autosave = [s.autosave EXCEPT !.lastSaved = p.timestamp]]

\* x ?? y
Coalesce(x, y) == IF x = Undefined \/ x = Null THEN y ELSE x

ReduceSetConflict(s, p) ==
  [s EXCEPT !.autosave =
     [s.autosave EXCEPT
        !.hasConflict = p.hasConflict,
        !.localValues = Coalesce(p.localValues, s.autosave.localValues),
        !.savedValues = Coalesce(p.savedValues, s.autosave.savedValues),
        !.localTimestamp = Coalesce(p.localTimestamp, s.autosave.localTimestamp),
        !.savedTimestamp = Coalesce(p.savedTimestamp, s.autosave.savedTimestamp)]]

\* Variant: the saved snapshot is kept.
ReduceResolveConflictKeepsSaved(s, p) ==
  LET valuesToUse == IF p.resolution = "local"
                       THEN s.autosave.localValues
                       ELSE s.autosave.savedValues
  IN [s EXCEPT
        !.values = IF valuesToUse = Null THEN s.values ELSE valuesToUse,
        !.autosave = [s.autosave EXCEPT !.hasConflict = FALSE,
                                        !.localValues = Null]]

ReduceResolveConflict(s, p) ==
  LET valuesToUse == IF p.resolution = "local"
                       THEN s.autosave.localValues
                       ELSE s.autosave.savedValues
  IN [s EXCEPT
        !.values = IF valuesToUse = Null THEN s.values ELSE valuesToUse,
        !.autosave = [s.autosave EXCEPT !.hasConflict = FALSE,
                                        !.localValues = Null,
                                        !.savedValues = Null]]

formReducer(s, action) ==
  CASE action.type = "SET_FIELD_VALUE"         -> ReduceSetFieldValue(s, action.payload)
    [] action.type = "SET_FIELD_TOUCHED"       -> ReduceSetFieldTouched(s, action.payload)
    [] action.type = "SET_FIELD_ERROR"         -> ReduceSetFieldError(s, action.payload)
    [] action.type = "CLEAR_FIELD_ERROR"       -> ReduceClearFieldError(s, action.payload)
    [] action.type = "SET_FIELD_VALIDATING"    -> ReduceSetFieldValidating(s, action.payload)
    [] action.type = "SET_VALUES"              -> ReduceSetValues(s, action.payload)
    [] action.type = "RESET_FORM"              -> ReduceResetForm(s, action.payload)
    [] action.type = "SET_SUBMITTING"          -> ReduceSetSubmitting(s, action.payload)
    [] action.type = "SET_FORM_ERRORS"         -> ReduceSetFormErrors(s, action.payload)
    [] action.type = "CLEAR_ALL_ERRORS"        -> ReduceClearAllErrors(s)
    [] action.type = "ADD_SECTION_INSTANCE"    -> ReduceAddSectionInstance(s, action.payload)
    [] action.type = "REMOVE_SECTION_INSTANCE" -> ReduceRemoveSectionInstance(s, action.payload)
    [] action.type = "SET_DRAFT_LOADED"        -> ReduceSetDraftLoaded(s, action.payload)
    [] action.type = "SET_LAST_SAVED"          -> ReduceSetLastSaved(s, action.payload)
    [] action.type = "SET_CONFLICT"            -> ReduceSetConflict(s, action.payload)
    [] action.type = "RESOLVE_CONFLICT"        -> ReduceResolveConflict(s, action.payload)
    [] OTHER                                   -> s

\* formSelectors
hasErrors(fields) == \E k \in DOMAIN fields : Len(fields[k].errors) > 0

hasDirtyFields(fields) == \E k \in DOMAIN fields : fields[k].dirty

selIsValid(s) == ~hasErrors(s.fields)

selIsDirty(s) == hasDirtyFields(s.fields)

(***************************************************************************)
(* Sync validators (sync-validators.ts).  A validator returns its error    *)
(* message, or NoError for null; callers only test the result's truth.     *)
(***************************************************************************)
NoError == ""

WhiteSpace == {" ", "\t", "\n"}

RECURSIVE TrimStart(_)
TrimStart(cs) ==
  IF cs = <<>> THEN cs
  ELSE IF Head(cs) \in WhiteSpace THEN TrimStart(Tail(cs)) ELSE cs

RECURSIVE TrimEnd(_)
TrimEnd(cs) ==
  IF cs = <<>> THEN cs
  ELSE IF cs[Len(cs)] \in WhiteSpace THEN TrimEnd(SubSeq(cs, 1, Len(cs) - 1)) ELSE cs

\* String.prototype.trim
Trim(cs) == TrimEnd(TrimStart(cs))

requiredRejectsZero(value) ==
  IF value.t = "null" \/ value.t = "undefined" THEN "This field is required"
  ELSE IF value.t = "string" /\ Trim(value.s) = <<>> THEN "This field is required"
  ELSE IF value.t = "boolean" /\ value.n = 0 THEN "This field is required"
  ELSE IF value.t = "number" /\ value.n = 0 THEN "This field is required"
  ELSE NoError

required(value) ==
  IF value.t = "null" \/ value.t = "undefined" THEN "This field is required"
  ELSE IF value.t = "string" /\ Trim(value.s) = <<>> THEN "This field is required"
  ELSE IF value.t = "boolean" /\ value.n = 0 THEN "This field is required"
  ELSE NoError

minLength(value, params) ==
  IF value.t # "string" THEN NoError
  ELSE IF params.value.t # "number" THEN NoError
  ELSE IF Len(value.s) < params.value.n
    THEN "Must be at least " \o ToString(params.value.n) \o " characters"
  ELSE NoError

maxLength(value, params) ==
  IF value.t # "string" THEN NoError
  ELSE IF params.value.t # "number" THEN NoError
  ELSE IF Len(value.s) > params.value.n
    THEN "Must be at most " \o ToString(params.value.n) \o " characters"
  ELSE NoError

minExclusive(value, params) ==
  IF value.t # "number" THEN NoError
  ELSE IF params.value.t # "number" THEN NoError
  ELSE IF value.n <= params.value.n THEN "Must be at least " \o ToString(params.value.n)
  ELSE NoError

min(value, params) ==
  IF value.t # "number" THEN NoError
  ELSE IF params.value.t # "number" THEN NoError
  ELSE IF value.n < params.value.n THEN "Must be at least " \o ToString(params.value.n)
  ELSE NoError

max(value, params) ==
  IF value.t # "number" THEN NoError
  ELSE IF params.value.t # "number" THEN NoError
  ELSE IF value.n > params.value.n THEN "Must be at most " \o ToString(params.value.n)
  ELSE NoError

Lower ==
  {"a", "b", "c", "d", "e", "f", "g", "h", "i", "j", "k", "l", "m",
   "n", "o", "p", "q", "r", "s", "t", "u", "v", "w", "x", "y", "z"}

Digits == {"0", "1", "2", "3", "4", "5", "6", "7", "8", "9"}

\* One element of a regular expression: a character class (negated or not)
\* repeated min to max times, or min times and more.
Item(set, neg, atLeast, atMost, many) ==
  [set |-> set, neg |-> neg, min |-> atLeast, max |-> atMost, many |-> many]

One(set) == Item(set, FALSE, 1, 1, FALSE)

Optional(set) == Item(set, FALSE, 0, 1, FALSE)

\* RegExp.prototype.test for an expression anchored at both ends: the
\* characters from position p on match the items from i on.
RECURSIVE MatchFrom(_, _, _, _)
MatchFrom(items, i, cs, p) ==
  IF i > Len(items) THEN p = Len(cs) + 1
  ELSE \E n \in items[i].min..(IF items[i].many THEN Len(cs) ELSE items[i].max) :
         /\ p + n - 1 <= Len(cs)
         /\ \A q \in p..(p + n - 1) : (cs[q] \in items[i].set) # items[i].neg
         /\ MatchFrom(items, i + 1, cs, p + n)

Test(items, cs) == MatchFrom(items, 1, cs, 1)

S_lowerPattern == <<"^", "[", "a", "-", "z", "]", "+", "$">>

S_digitPattern == <<"^", "[", "0", "-", "9", "]", "+", "$">>

S_badPattern == <<"(">>

\* new RegExp(patternStr) for the pattern strings the rules of the model
\* carry; any other string is taken as one that does not compile.
RegExpOf(patternStr) ==
  IF patternStr = S_lowerPattern
    THEN [valid |-> TRUE, items |-> <<Item(Lower, FALSE, 1, 1, TRUE)>>]
  ELSE IF patternStr = S_digitPattern
    THEN [valid |-> TRUE, items |-> <<Item(Digits, FALSE, 1, 1, TRUE)>>]
  ELSE [valid |-> FALSE, items |-> <<>>]

pattern(value, params) ==
  IF value.t # "string" \/ value.s = <<>> THEN NoError
  ELSE IF params.value.t # "string" THEN NoError
  ELSE IF ~RegExpOf(params.value.s).valid THEN NoError
  ELSE IF ~Test(RegExpOf(params.value.s).items, value.s)
    THEN (IF params.message # "" THEN params.message ELSE "Invalid format")
  ELSE NoError

\* /^[^\s@]+@[^\s@]+\.[^\s@]+$/
emailRegex ==
  <<Item(WhiteSpace \cup {"@"}, TRUE, 1, 1, TRUE), One({"@"}),
    Item(WhiteSpace \cup {"@"}, TRUE, 1, 1, TRUE), One({"."}),
    Item(WhiteSpace \cup {"@"}, TRUE, 1, 1, TRUE)>>

email(value) ==
  IF value.t # "string" \/ value.s = <<>> THEN NoError
  ELSE IF ~Test(emailRegex, value.s) THEN "Please enter a valid email address"
  ELSE NoError

Separators == {"-", ".", " ", "\t", "\n"}

\* The phone expression: [+]? [(]? digits{1,3} [)]? sep? [(]? digits{1,4}
\* [)]? sep? digits{1,4} sep? digits{1,9}
phoneRegex ==
  <<Optional({"+"}), Optional({"("}), Item(Digits, FALSE, 1, 3, FALSE), Optional({")"}),
    Optional(Separators), Optional({"("}), Item(Digits, FALSE, 1, 4, FALSE),
    Optional({")"}), Optional(Separators), Item(Digits, FALSE, 1, 4, FALSE),
    Optional(Separators), Item(Digits, FALSE, 1, 9, FALSE)>>

phone(value) ==
  IF value.t # "string" \/ value.s = <<>> THEN NoError
  ELSE IF ~Test(phoneRegex, value.s) THEN "Please enter a valid phone number"
  ELSE NoError

SpecialSchemes == {<<"h", "t", "t", "p">>, <<"h", "t", "t", "p", "s">>, <<"f", "t", "p">>,
                   <<"w", "s">>, <<"w", "s", "s">>}

\* The position of the first colon of cs, 0 if there is none.
FirstColon(cs) ==
  IF \E k \in 1..Len(cs) : cs[k] = ":"
    THEN CHOOSE k \in 1..Len(cs) : cs[k] = ":" /\ \A q \in 1..(k - 1) : cs[q] # ":"
    ELSE 0

RECURSIVE StripSlashes(_)
StripSlashes(cs) ==
  IF cs # <<>> /\ Head(cs) \in {"/", "\\"} THEN StripSlashes(Tail(cs)) ELSE cs

\* The host of what follows a special scheme: up to the next slash.
HostOf(cs) ==
  LET rest == StripSlashes(cs)
      ends == {k \in 1..Len(rest) : rest[k] \in {"/", "\\", "?", "#"}}
  IN IF ends = {} THEN rest
     ELSE SubSeq(rest, 1, (CHOOSE k \in ends : \A q \in ends : k <= q) - 1)

\* new URL(value) succeeds: for strings of lower-case letters, digits and
\* punctuation, a scheme followed by a colon, and a host that is not empty and
\* has no space when the scheme is a special one.
ParsesAsURL(cs) ==
  LET s == Trim(cs)
      k == FirstColon(s)
  IN /\ k > 1
     /\ s[1] \in Lower
     /\ \A q \in 2..(k - 1) : s[q] \in Lower \cup Digits \cup {"+", "-", "."}
     /\ SubSeq(s, 1, k - 1) \in SpecialSchemes =>
          LET hostname == HostOf(SubSeq(s, k + 1, Len(s)))
          IN hostname # <<>> /\ \A q \in 1..Len(hostname) : hostname[q] \notin WhiteSpace

url(value) ==
  IF value.t # "string" \/ value.s = <<>> THEN NoError
  ELSE IF ~ParsesAsURL(value.s) THEN "Please enter a valid URL"
  ELSE NoError

\* The own keys of the syncValidators registry.
syncValidators ==
  {"required", "minLength", "maxLength", "pattern", "email", "min", "max", "url", "phone"}

\* Keys the registry object inherits from Object.prototype; the model has the
\* two whose functions return when called without a receiver.
ObjectPrototypeKeys == {"toString", "constructor"}

\* No validator: the lookup gave undefined.
NoValidator == ""

\* getSyncValidator: the property lookup syncValidators[type], own keys first,
\* then the prototype's.
getSyncValidator(type) ==
  IF type \in syncValidators THEN type
  ELSE IF type \in ObjectPrototypeKeys THEN "Object.prototype." \o type
  ELSE NoValidator

\* A ValidationRule: rule.value is Undefined and rule.message "" when absent.
Rule(type, value, message) == [type |-> type, value |-> value, message |-> message]

validateRule(value, rule, formValues) ==
  LET validator == getSyncValidator(rule.type)
      params == [value |-> rule.value, message |-> rule.message]
  IN IF validator = NoValidator THEN NoError
     ELSE CASE validator = "required"  -> required(value)
            [] validator = "minLength" -> minLength(value, params)
            [] validator = "maxLength" -> maxLength(value, params)
            [] validator = "pattern"   -> pattern(value, params)
            [] validator = "email"     -> email(value)
            [] validator = "min"       -> min(value, params)
            [] validator = "max"       -> max(value, params)
            [] validator = "url"       -> url(value)
            [] validator = "phone"     -> phone(value)
            \* Object.prototype.toString.call(undefined)
            [] validator = "Object.prototype.toString" -> "[object Undefined]"
            \* Object(value): an object, which is truthy
            [] validator = "Object.prototype.constructor" -> "[object Object]"

\* failedRule of a result without one
NoRule == Rule("", Undefined, "")

\* rule.message || error
ReportedErrorFallbackOnly(rule, error) == error

ReportedError(rule, error) == IF rule.message # "" THEN rule.message ELSE error

\* The for loop of validateFieldSync from rule i on: async rules are skipped,
\* the first error ends the loop.  ran is the set of the positions whose rule
\* was handed to validateRule.
RECURSIVE validateFieldLoop(_, _, _, _)
validateFieldLoop(value, rules, i, formValues) ==
  IF i > Len(rules) THEN [errors |-> <<>>, failedRule |-> NoRule, ran |-> {}]
  ELSE IF rules[i].type = "async" THEN validateFieldLoop(value, rules, i + 1, formValues)
  ELSE LET error == validateRule(value, rules[i], formValues)
           rest == validateFieldLoop(value, rules, i + 1, formValues)
       IN IF error # NoError
            THEN [errors |-> <<ReportedError(rules[i], error)>>,
                  failedRule |-> rules[i],
                  ran |-> {i}]
            ELSE [rest EXCEPT !.ran = {i} \cup @]

validateFieldSync(fieldId, value, rules, formValues) ==
  Call(LAMBDA r : [fieldId |-> fieldId,
                   isValid |-> Len(r.errors) = 0,
                   errors |-> r.errors,
                   failedRule |-> r.failedRule],
       Call3(LAMBDA v, rs, fv : validateFieldLoop(v, rs, 1, fv), value, rules, formValues))

\* field.validation of a field without rules
FieldRules(field) == IF "validation" \in DOMAIN field THEN field.validation ELSE <<>>

\* The loop of validateFormSync over fields[1..n].
RECURSIVE validateFormLoop(_, _, _, _)
validateFormLoop(fields, n, values, options) ==
  IF n = 0 THEN [fieldErrors |-> EmptyObj, errorCount |-> 0]
  ELSE LET acc == validateFormLoop(fields, n - 1, values, options)
           field == fields[n]
           result == validateFieldSync(field.id, Get(values, field.id), FieldRules(field), values)
       IN IF field.id \in options.hiddenFields THEN acc
          ELSE IF options.touchedOnly /\ field.id \notin options.touchedFields THEN acc
          ELSE IF Len(FieldRules(field)) = 0 THEN acc
          ELSE IF ~result.isValid
            THEN [fieldErrors |-> Put(acc.fieldErrors, field.id, result.errors),
                  errorCount |-> acc.errorCount + Len(result.errors)]
          ELSE acc

validateFormSyncIgnoresHidden(fields, values, options) ==
  Call(LAMBDA r : [isValid |-> r.errorCount = 0,
                   fieldErrors |-> r.fieldErrors,
                   errorCount |-> r.errorCount],
       Call3(LAMBDA fs, vs, os :
               validateFormLoop(fs, Len(fs), vs, [os EXCEPT !.hiddenFields = {}]),
             fields, values, options))

validateFormSync(fields, values, options) ==
  Call(LAMBDA r : [isValid |-> r.errorCount = 0,
                   fieldErrors |-> r.fieldErrors,
                   errorCount |-> r.errorCount],
       Call3(LAMBDA fs, vs, os : validateFormLoop(fs, Len(fs), vs, os),
             fields, values, options))

(***************************************************************************)
(* Condition resolver (resolver.ts).  A condition is a record whose        *)
(* DOMAIN holds the keys of the JavaScript object; condition.field is the  *)
(* path already split at its dots.                                         *)
(***************************************************************************)
\* current[key] for a FieldValue: strings and arrays have a length, the other
\* keys the model's paths use read undefined.
Prop(current, key) ==
  IF key = "length" /\ current.t = "string" THEN Num(Len(current.s))
  ELSE IF key = "length" /\ current.t = "array" THEN Num(Len(current.a))
  ELSE Undefined

\* The loop of getNestedValue from the path's segment i on, current being a
\* FieldValue.
RECURSIVE getNestedLoop(_, _, _)
getNestedLoop(current, path, i) ==
  IF i > Len(path) THEN current
  ELSE IF current.t = "null" \/ current.t = "undefined" THEN Undefined
  ELSE getNestedLoop(Prop(current, path[i]), path, i + 1)

\* getNestedValue: the first segment reads the values object, the next ones
\* the value found.
getNestedValue(obj, path) == getNestedLoop(Get(obj, path[1]), path, 2)

\* Variant: 0 and false count as empty.
isEmptyFalsy(value) ==
  IF value.t = "null" \/ value.t = "undefined" THEN TRUE
  ELSE IF value.t = "string" THEN Trim(value.s) = <<>>
  ELSE IF value.t = "number" THEN value.n = 0
  ELSE IF value.t = "boolean" THEN value.n = 0
  ELSE IF value.t = "array" THEN Len(value.a) = 0
  ELSE FALSE

isEmpty(value) ==
  IF value.t = "null" \/ value.t = "undefined" THEN TRUE
  ELSE IF value.t = "string" THEN Trim(value.s) = <<>>
  ELSE IF value.t = "number" THEN FALSE
  ELSE IF value.t = "boolean" THEN FALSE
  ELSE IF value.t = "array" THEN Len(value.a) = 0
  ELSE FALSE

\* Variant: nothing is included.
IncludesNothing(arr, x) == FALSE

\* Array.prototype.includes
Includes(arr, x) == \E i \in 1..Len(arr.a) : StrictEq(arr.a[i], x)

\* String.prototype.includes
IsSubstring(needle, hay) ==
  \E i \in 0..(Len(hay) - Len(needle)) : SubSeq(hay, i + 1, i + Len(needle)) = needle

evaluateSimpleCondition(condition, values) ==
  LET fieldValue == getNestedValue(values, condition.field)
      compareValue == IF "value" \in DOMAIN condition THEN condition.value ELSE Undefined
      op == condition.operator
  IN CASE op = "equals"      -> StrictEq(fieldValue, compareValue)
       [] op = "notEquals"   -> ~StrictEq(fieldValue, compareValue)
       [] op = "contains"    ->
            IF fieldValue.t = "string" /\ compareValue.t = "string"
              THEN IsSubstring(compareValue.s, fieldValue.s)
            ELSE IF fieldValue.t = "array" /\ compareValue.t = "string"
              THEN Includes(fieldValue, compareValue)
            ELSE FALSE
       [] op = "greaterThan" ->
            IF fieldValue.t = "number" /\ compareValue.t = "number"
              THEN fieldValue.n > compareValue.n ELSE FALSE
       [] op = "lessThan"    ->
            IF fieldValue.t = "number" /\ compareValue.t = "number"
              THEN fieldValue.n < compareValue.n ELSE FALSE
       [] op = "isEmpty"     -> isEmpty(fieldValue)
       [] op = "isNotEmpty"  -> ~isEmpty(fieldValue)
       [] op = "in"          ->
            IF compareValue.t = "array" THEN Includes(compareValue, fieldValue) ELSE FALSE
       [] op = "notIn"       ->
            IF compareValue.t = "array" THEN ~Includes(compareValue, fieldValue) ELSE TRUE
       [] OTHER              -> TRUE

RECURSIVE evaluateCondition(_, _)

\* condition.and.every(...) from child i on: the first false child ends it.
RECURSIVE Every(_, _, _)
Every(children, i, values) ==
  IF i > Len(children) THEN TRUE
  ELSE IF ~evaluateCondition(children[i], values) THEN FALSE
  ELSE Every(children, i + 1, values)

\* condition.or.some(...) from child i on: the first true child ends it.
RECURSIVE Some(_, _, _)
Some(children, i, values) ==
  IF i > Len(children) THEN FALSE
  ELSE IF evaluateCondition(children[i], values) THEN TRUE
  ELSE Some(children, i + 1, values)

evaluateAndCondition(condition, values) == Every(condition.and, 1, values)

evaluateOrCondition(condition, values) == Some(condition.or, 1, values)

\* Variant: the child's result is not inverted.
evaluateNotConditionPlain(condition, values) == evaluateCondition(condition.not, values)

evaluateNotCondition(condition, values) == ~evaluateCondition(condition.not, values)

\* Variant: a condition of unknown shape is false.
evaluateConditionFailClosed(condition, values) ==
  IF "field" \in DOMAIN condition /\ "operator" \in DOMAIN condition
    THEN evaluateSimpleCondition(condition, values)
  ELSE IF "and" \in DOMAIN condition THEN evaluateAndCondition(condition, values)
  ELSE IF "or" \in DOMAIN condition THEN evaluateOrCondition(condition, values)
  ELSE IF "not" \in DOMAIN condition THEN evaluateNotCondition(condition, values)
  ELSE FALSE

evaluateCondition(condition, values) ==
  IF "field" \in DOMAIN condition /\ "operator" \in DOMAIN condition
    THEN evaluateSimpleCondition(condition, values)
  ELSE IF "and" \in DOMAIN condition THEN evaluateAndCondition(condition, values)
  ELSE IF "or" \in DOMAIN condition THEN evaluateOrCondition(condition, values)
  ELSE IF "not" \in DOMAIN condition THEN evaluateNotCondition(condition, values)
  ELSE TRUE

\* FormSection / FieldRenderer: a field is rendered iff it has no showWhen
\* or its showWhen evaluates true.
IsFieldVisible(field, values) ==
  IF "showWhen" \notin DOMAIN field THEN TRUE
  ELSE evaluateCondition(field.showWhen, values)

(***************************************************************************)
(* FormRenderer (FormRenderer.tsx): the schema's fields and handleSubmit.  *)
(***************************************************************************)
RECURSIVE FlattenFields(_, _)
FlattenFields(sections, n) ==
  IF n = 0 THEN <<>> ELSE FlattenFields(sections, n - 1) \o sections[n].fields

\* allFields: the fields of every section, in schema order
allFields(sch) == FlattenFields(sch.sections, Len(sch.sections))

Action(type, payload) == [type |-> type, payload |-> payload]

setFieldTouched(fieldId, touched, instanceIndex) ==
  Action("SET_FIELD_TOUCHED",
         [fieldId |-> fieldId, touched |-> touched, instanceIndex |-> instanceIndex])

setFieldError(fieldId, errors, instanceIndex) ==
  Action("SET_FIELD_ERROR",
         [fieldId |-> fieldId, errors |-> errors, instanceIndex |-> instanceIndex])

clearAllErrors == Action("CLEAR_ALL_ERRORS", EmptyObj)

\* for (const field of allFields) dispatch(setFieldTouched(field.id, true))
RECURSIVE TouchAll(_, _, _)
TouchAll(s, fields, n) ==
  IF n = 0 THEN s
  ELSE formReducer(TouchAll(s, fields, n - 1), setFieldTouched(fields[n].id, TRUE, NoIndex))

\* for (const [fieldId, errors] of Object.entries(fieldErrors)) dispatch(setFieldError(...));
\* the dispatches address distinct keys, so their order does not matter.
RECURSIVE DispatchErrors(_, _, _)
DispatchErrors(s, fieldErrors, keys) ==
  IF keys = {} THEN s
  ELSE LET k == CHOOSE x \in keys : TRUE
       IN DispatchErrors(formReducer(s, setFieldError(k, fieldErrors[k], NoIndex)),
                         fieldErrors, keys \ {k})

\* Variant: only touched fields are validated, and none counts as touched.
SubmitOptionsTouchedOnly(fields) ==
  [touchedOnly |-> TRUE,
   touchedFields |-> {},
   hiddenFields |-> {}]

\* The options handleSubmit passes to validateFormSync: { touchedFields } only.
SubmitOptions(fields) ==
  [touchedOnly |-> FALSE,
   touchedFields |-> {fields[i].id : i \in 1..Len(fields)},
   hiddenFields |-> {}]

\* handleSubmit: the state after its dispatches, and whether onSubmit was called.
handleSubmit(s, sch) ==
  LET fields == Call(LAMBDA x : x, allFields(sch))
      touchedState == Call(LAMBDA x : x, TouchAll(s, fields, Len(fields)))
      Outcome(touched, validationResult) ==
        IF ~validationResult.isValid
          THEN [state |-> DispatchErrors(touched, validationResult.fieldErrors,
                                         DOMAIN validationResult.fieldErrors),
                called |-> FALSE]
          ELSE [state |-> formReducer(touched, clearAllErrors),
                called |-> TRUE]
  IN Call2(Outcome, touchedState,
           validateFormSync(fields, s.values, SubmitOptions(fields)))

(***************************************************************************)
(* The form under test and the inputs of its operations.                   *)
(***************************************************************************)
\* conditionalFieldsSchema of the README's test suite
conditionalFieldsSchema ==
  [sections |-> <<
     [id |-> "main",
      fields |-> <<
        [id |-> "showAddress"],
        [id |-> "address",
         showWhen |-> [field |-> <<"showAddress">>, operator |-> "equals", value |-> Str(S_yes)],
         validation |-> <<Rule("required", Undefined, "Address is required")>>]
      >>]
   >>]

MaxSteps == 2

FieldIds == {"showAddress", "address"}
SectionIds == {"items"}
InstanceIndexes == {NoIndex, 0}
RemoveIndexes == {0, 1}

\* Two array objects with equal elements are different values.
FieldValues ==
  {Undefined, Str(S_blank), Str(S_yes), Arr(1, <<Str(S_no)>>), Arr(2, <<Str(S_no)>>)}

ErrorLists == {<<>>, <<"Server says no">>}

ValueMaps ==
  {[k \in {"showAddress"} |-> Str(S_yes)],
   [k \in {"showAddress", "address"} |-> IF k = "address" THEN Arr(1, <<Str(S_no)>>) ELSE Undefined]}

InitialValueMaps == {EmptyObj} \cup ValueMaps

ErrorMaps == {[k \in {"address"} |-> <<"Server says no">>]}

DefaultValueMaps == {EmptyObj, [k \in {"address"} |-> Undefined]}

\* The details of setConflict: each side's values and timestamp, given or not.
ConflictDetails ==
  {[localValues |-> lv, savedValues |-> sv,
    localTimestamp |-> IF lv = Undefined THEN Undefined ELSE Num(1),
    savedTimestamp |-> IF sv = Undefined THEN Undefined ELSE Num(2)] :
     lv \in {Undefined, [k \in {"showAddress"} |-> Str(S_yes)]},
     sv \in {Undefined, [k \in {"address"} |-> Str(S_blank)]}}

\* A validator just made by createAsyncValidator, no call made yet.
AsyncInit ==
  /\ now = 0
  /\ calls = <<>>
  /\ requests = <<>>
  /\ timeoutId = 0
  /\ abortController = 0
  /\ timers = {}
  /\ aborted = {}
  /\ cancels = <<>>

\* useState's initial AutosaveState
InitialHookState ==
  [lastSaved |-> Null, isSaving |-> FALSE, error |-> Null,
   hasConflict |-> FALSE, serverVersion |-> Null]

NoTimer == [armed |-> FALSE, due |-> 0, values |-> 0, isSaving |-> FALSE]

\* The events are counted; the passing of time is not one.
Mounted ==
  [type |-> "mount", r |-> 0, e |-> 0, invoked |-> FALSE, n |-> 0, hadConflict |-> FALSE]

Event(type, r, e) ==
  [type |-> type, r |-> r, e |-> e, invoked |-> FALSE, n |-> event.n + 1,
   hadConflict |-> hook.hasConflict]

\* The event was a call that invoked the save function.
Invoking(type) ==
  [type |-> type, r |-> 0, e |-> 0, invoked |-> TRUE, n |-> event.n + 1,
   hadConflict |-> hook.hasConflict]

\* No function has been called.
NoCall == [op |-> "none"]

CallIdle == args = NoCall /\ returned = NoCall

\* An autosaving component that is mounted disabled and is left alone.
AutosaveIdle ==
  /\ host = "useAutosave"
  /\ props = [values |-> 1, isDirty |-> FALSE, enabled |-> FALSE, currentVersion |-> 0]
  /\ hook = InitialHookState
  /\ versionRef = 0
  /\ timeoutRef = NoTimer
  /\ saves = <<>>
  /\ clock = 0
  /\ lastChange = 0
  /\ event = Mounted

FormInit ==
  /\ schema = conditionalFieldsSchema
  /\ \E iv \in InitialValueMaps : state = createInitialState(iv)
  /\ last = Action("INIT", EmptyObj)
  /\ prev = state
  /\ submitted = <<>>
  /\ steps = 0

Init == FormInit /\ AsyncInit /\ AutosaveIdle /\ CallIdle

\* dispatch(action)
Dispatch(action) ==
  /\ state' = formReducer(state, action)
  /\ last' = action
  /\ prev' = state
  /\ steps' = steps + 1
  /\ UNCHANGED <<schema, submitted>>
  /\ UNCHANGED exceptForm

SET_FIELD_VALUE ==
  /\ steps < MaxSteps
  /\ \E f \in FieldIds, v \in FieldValues, i \in InstanceIndexes :
       Dispatch(Action("SET_FIELD_VALUE", [fieldId |-> f, value |-> v, instanceIndex |-> i]))

SET_FIELD_TOUCHED ==
  /\ steps < MaxSteps
  /\ \E f \in FieldIds, b \in BOOLEAN, i \in InstanceIndexes : Dispatch(setFieldTouched(f, b, i))

SET_FIELD_ERROR ==
  /\ steps < MaxSteps
  /\ \E f \in FieldIds, e \in ErrorLists, i \in InstanceIndexes : Dispatch(setFieldError(f, e, i))

CLEAR_FIELD_ERROR ==
  /\ steps < MaxSteps
  /\ \E f \in FieldIds, i \in InstanceIndexes :
       Dispatch(Action("CLEAR_FIELD_ERROR", [fieldId |-> f, instanceIndex |-> i]))

SET_FIELD_VALIDATING ==
  /\ steps < MaxSteps
  /\ \E f \in FieldIds, b \in BOOLEAN, i \in InstanceIndexes :
       Dispatch(Action("SET_FIELD_VALIDATING",
                       [fieldId |-> f, validating |-> b, instanceIndex |-> i]))

SET_VALUES ==
  /\ steps < MaxSteps
  /\ \E m \in ValueMaps, b \in BOOLEAN :
       Dispatch(Action("SET_VALUES", [values |-> m, isInitial |-> b]))

RESET_FORM ==
  /\ steps < MaxSteps
  /\ \/ Dispatch(Action("RESET_FORM", [hasValues |-> FALSE, values |-> EmptyObj]))
     \/ \E m \in ValueMaps : Dispatch(Action("RESET_FORM", [hasValues |-> TRUE, values |-> m]))

SET_SUBMITTING ==
  /\ steps < MaxSteps
  /\ \E b \in BOOLEAN : Dispatch(Action("SET_SUBMITTING", [submitting |-> b]))

SET_FORM_ERRORS ==
  /\ steps < MaxSteps
  /\ \E m \in ErrorMaps : Dispatch(Action("SET_FORM_ERRORS", [errors |-> m]))

CLEAR_ALL_ERRORS ==
  /\ steps < MaxSteps
  /\ Dispatch(clearAllErrors)

ADD_SECTION_INSTANCE ==
  /\ steps < MaxSteps
  /\ \E sec \in SectionIds, m \in DefaultValueMaps :
       Dispatch(Action("ADD_SECTION_INSTANCE", [sectionId |-> sec, defaultValues |-> m]))

REMOVE_SECTION_INSTANCE ==
  /\ steps < MaxSteps
  /\ \E sec \in SectionIds, i \in RemoveIndexes :
       Dispatch(Action("REMOVE_SECTION_INSTANCE", [sectionId |-> sec, instanceIndex |-> i]))

SET_DRAFT_LOADED ==
  /\ steps < MaxSteps
  /\ \E b \in BOOLEAN : Dispatch(Action("SET_DRAFT_LOADED", [loaded |-> b]))

SET_LAST_SAVED ==
  /\ steps < MaxSteps
  /\ Dispatch(Action("SET_LAST_SAVED", [timestamp |-> Num(1)]))

SET_CONFLICT ==
  /\ steps < MaxSteps
  /\ \E b \in BOOLEAN, d \in ConflictDetails :
       Dispatch(Action("SET_CONFLICT", [hasConflict |-> b] @@ d))

RESOLVE_CONFLICT ==
  /\ steps < MaxSteps
  /\ \E r \in {"local", "saved"} : Dispatch(Action("RESOLVE_CONFLICT", [resolution |-> r]))

\* The form's submit event.
Submit ==
  /\ steps < MaxSteps
  /\ LET r == handleSubmit(state, schema)
     IN /\ state' = r.state
        /\ submitted' = IF r.called THEN Append(submitted, state.values) ELSE submitted
        /\ last' = Action("SUBMIT", [called |-> r.called])
        /\ prev' = state
  /\ steps' = steps + 1
  /\ UNCHANGED schema
  /\ UNCHANGED exceptForm

Next ==
  \/ SET_FIELD_VALUE
  \/ SET_FIELD_TOUCHED
  \/ SET_FIELD_ERROR
  \/ CLEAR_FIELD_ERROR
  \/ SET_FIELD_VALIDATING
  \/ SET_VALUES
  \/ RESET_FORM
  \/ SET_SUBMITTING
  \/ SET_FORM_ERRORS
  \/ CLEAR_ALL_ERRORS
  \/ ADD_SECTION_INSTANCE
  \/ REMOVE_SECTION_INSTANCE
  \/ SET_DRAFT_LOADED
  \/ SET_LAST_SAVED
  \/ SET_CONFLICT
  \/ RESOLVE_CONFLICT
  \/ Submit

Spec == Init /\ [][Next]_vars

(***************************************************************************)
(* Properties of the submit handler and the reducer.                       *)
(***************************************************************************)
\* The step just taken reduced an operation of this type.
\* The operation applied last, to the state prev, was of this type.
Did(type) == last.type = type

ErrorsOf(s, key) == FieldOrDefault(s.fields, key).errors

SchemaFields == {allFields(schema)[i] : i \in 1..Len(allFields(schema))}

VisibleFieldsValid(values) ==
  \A f \in SchemaFields :
    IsFieldVisible(f, values) =>
      validateFieldSync(f.id, Get(values, f.id), FieldRules(f), values).isValid

\* C1: on submit a field whose showWhen is false for the current values is not
\* validated: the submit stores no error for it, and it does not keep onSubmit
\* from being called when every visible field satisfies its rules.
C1_HiddenFieldsNotValidated ==
  Did("SUBMIT") =>
       /\ \A f \in SchemaFields :
            ~IsFieldVisible(f, prev.values) =>
              ErrorsOf(state, f.id) \in {ErrorsOf(prev, f.id), <<>>}
       /\ VisibleFieldsValid(prev.values) => last.payload.called

\* validateFormSync over all schema fields: nothing hidden, no touched filter
AllFieldsOptions == [touchedOnly |-> FALSE, touchedFields |-> {}, hiddenFields |-> {}]

C3_SetFieldValue ==
  Did("SET_FIELD_VALUE") /\ last.payload.instanceIndex = NoIndex =>
       LET f == last.payload.fieldId
           v == last.payload.value
           before == FieldOrDefault(prev.fields, f)
       IN /\ f \in DOMAIN state.values /\ state.values[f] = v
          /\ f \in DOMAIN state.fields
          /\ state.fields[f].dirty = ~StrictEq(v, Get(prev.initialValues, f))
          /\ state.fields[f].errors = <<>>
          /\ state.fields[f].touched = before.touched
          /\ state.fields[f].validating = before.validating

\* A touched field was set back to its recorded initial value.
C3_Witness ==
  /\ last.type = "SET_FIELD_VALUE"
  /\ last.payload.instanceIndex = NoIndex
  /\ last.payload.fieldId \in DOMAIN state.initialValues
  /\ last.payload.value = state.initialValues[last.payload.fieldId]
  /\ state.fields[last.payload.fieldId].touched
  /\ ~state.fields[last.payload.fieldId].dirty

\* C4: RESET_FORM without values makes values equal initialValues, leaves every
\* existing FieldState untouched, clean, not validating and without errors, and
\* leaves no section instance.
C4_ResetForm ==
  last.type = "RESET_FORM" /\ ~last.payload.hasValues =>
    /\ state.values = state.initialValues
    /\ \A k \in DOMAIN state.fields :
         /\ ~state.fields[k].touched
         /\ ~state.fields[k].dirty
         /\ ~state.fields[k].validating
         /\ state.fields[k].errors = <<>>
    /\ \A sec \in DOMAIN state.repeatableSections :
         Len(state.repeatableSections[sec].instances) = 0

\* A reset of a form that had initial values, after some other operation.
C4_Witness ==
  /\ last.type = "RESET_FORM"
  /\ ~last.payload.hasValues
  /\ steps = 2
  /\ DOMAIN state.fields # {}

\* C5 as stated: RESOLVE_CONFLICT sets values to the chosen side's snapshot, and
\* clears hasConflict and both snapshots.
C5_ResolveConflict_Original ==
  Did("RESOLVE_CONFLICT") =>
       /\ state.values = IF last.payload.resolution = "local"
                            THEN prev.autosave.localValues
                            ELSE prev.autosave.savedValues
       /\ ~state.autosave.hasConflict
       /\ state.autosave.localValues = Null
       /\ state.autosave.savedValues = Null

\* C5 (amended): RESOLVE_CONFLICT sets values to the chosen side's snapshot when
\* that snapshot is present and leaves values unchanged when it is absent; in both
\* cases it clears hasConflict and both snapshots.
C5_ResolveConflict ==
  Did("RESOLVE_CONFLICT") =>
       LET chosen == IF last.payload.resolution = "local"
                       THEN prev.autosave.localValues
                       ELSE prev.autosave.savedValues
       IN /\ state.values = IF chosen = Null THEN prev.values ELSE chosen
          /\ ~state.autosave.hasConflict
          /\ state.autosave.localValues = Null
          /\ state.autosave.savedValues = Null

\* A conflict with a local snapshot was resolved to the local side.
C5_Witness ==
  /\ last.type = "RESOLVE_CONFLICT"
  /\ last.payload.resolution = "local"
  /\ state.initialValues = EmptyObj
  /\ state.autosave.localTimestamp = Num(1)
  /\ state.values = [k \in {"showAddress"} |-> Str(S_yes)]

(***************************************************************************)
(* createAsyncValidator and debounce (pipeline.ts).  Time is counted in    *)
(* ticks; a timer whose delay has elapsed runs its callback before any     *)
(* later event is handled.                                                 *)
(***************************************************************************)
DebounceMs == 2
MaxTime == 4
MaxCalls == 3
MaxCancels == 1

AsyncValues == {Str(S_yes), Str(S_no)}

S_taken == <<"t", "a", "k", "e", "n">>

\* What fetch can end with: a rejection, or a response with its status and body.
Response(kind, ok, valid, message) ==
  [kind |-> kind, ok |-> ok, valid |-> valid, message |-> message]

NoResponse == Response("none", FALSE, FALSE, Undefined)

ServerResponses ==
  {Response("networkError", FALSE, FALSE, Undefined),
   Response("http", FALSE, FALSE, Undefined),
   Response("http", TRUE, TRUE, Undefined),
   Response("http", TRUE, FALSE, Str(S_taken)),
   Response("http", TRUE, FALSE, Str(S_empty)),
   Response("http", TRUE, FALSE, Undefined)}

\* The signal given to fetch for the request of a call: createAsyncValidator
\* passes none (0); the debounce's AbortController is not handed to fn.
FetchSignal(call) == 0

\* A fetch rejects with AbortError only if it was given a signal that is aborted.
PossibleResponses(call, abortedNow) ==
  IF FetchSignal(call) # 0 /\ FetchSignal(call) \in abortedNow
    THEN {Response("abortError", FALSE, FALSE, Undefined)}
    ELSE ServerResponses

Return(value) == [kind |-> "return", value |-> value, error |-> ""]
Throw(error)  == [kind |-> "throw", value |-> Undefined, error |-> error]

\* The try block of the function createAsyncValidator debounces.
AsyncTryBlock(resp) ==
  IF resp.kind = "networkError" THEN Throw("TypeError")
  ELSE IF resp.kind = "abortError" THEN Throw("AbortError")
  ELSE IF ~resp.ok THEN Throw("Error")
  ELSE IF resp.valid THEN Return(Null) ELSE Return(resp.message)

\* Variant: no catch block, the error leaves fn.
AsyncFnRethrows(resp) == AsyncTryBlock(resp)

\* ... and its catch block: every error becomes null.
AsyncFn(resp) ==
  IF AsyncTryBlock(resp).kind = "throw" THEN Return(Null) ELSE AsyncTryBlock(resp)

\* The timer callback of debounce.run: how fn's outcome settles the promise.
DebounceSettle(outcome) ==
  IF outcome.kind = "return" THEN [promise |-> "resolved", result |-> outcome.value]
  ELSE IF outcome.error = "AbortError" THEN [promise |-> "resolved", result |-> Null]
  ELSE [promise |-> "rejected", result |-> Undefined]

\* Variant: the previous timer is left set.
ClearTimeoutForgotten(tms, id) == tms

\* if (timeoutId) clearTimeout(timeoutId)
ClearTimeout(tms, id) == {tm \in tms : tm.id # id}

\* if (abortController) abortController.abort()
Abort(abortedNow, controller) ==
  IF controller # 0 THEN abortedNow \cup {controller} ELSE abortedNow

\* The timers after run() has cleared the previous one and set its own.
RunTimers(tms, previous, k, at) ==
  ClearTimeout(tms, previous) \cup {[id |-> k, due |-> at + DebounceMs]}

TimerDue == \E tm \in timers : tm.due <= now

InFlight(call) ==
  \E i \in 1..Len(requests) : requests[i].call = call /\ requests[i].status = "inflight"

\* validate(value), that is debounce's run
Validate ==
  /\ Len(calls) < MaxCalls
  /\ ~TimerDue
  /\ \E v \in AsyncValues :
       LET k == Len(calls) + 1
           marked == [j \in 1..Len(calls) |->
                        IF InFlight(j) THEN [calls[j] EXCEPT !.supersededInFlight = TRUE]
                        ELSE calls[j]]
       IN /\ timers' = RunTimers(timers, timeoutId, k, now)
          /\ aborted' = Abort(aborted, abortController)
          /\ abortController' = k
          /\ timeoutId' = k
          /\ calls' = Append(marked, [value |-> v, at |-> now, promise |-> "pending",
                                      result |-> Undefined, supersededInFlight |-> FALSE])
  /\ UNCHANGED <<now, requests, cancels>>
  /\ UNCHANGED exceptAsync

\* cancel()
Cancel ==
  /\ Len(cancels) < MaxCancels
  /\ ~TimerDue
  /\ timers' = ClearTimeout(timers, timeoutId)
  /\ aborted' = Abort(aborted, abortController)
  /\ cancels' = Append(cancels, [at |-> now, after |-> Len(calls)])
  /\ UNCHANGED <<now, calls, requests, timeoutId, abortController>>
  /\ UNCHANGED exceptAsync

\* A timer's delay has elapsed: its callback calls fn, which calls fetch.
TimerFire ==
  /\ \E tm \in timers :
       /\ tm.due <= now
       /\ timers' = timers \ {tm}
       /\ requests' = Append(requests, [call |-> tm.id, value |-> calls[tm.id].value,
                                        at |-> now, status |-> "inflight",
                                        response |-> NoResponse])
  /\ UNCHANGED <<now, calls, timeoutId, abortController, aborted, cancels>>
  /\ UNCHANGED exceptAsync

\* The fetch of a request settles; fn returns and the call's promise is settled.
Respond ==
  /\ \E i \in 1..Len(requests) :
       /\ requests[i].status = "inflight"
       /\ \E resp \in PossibleResponses(requests[i].call, aborted) :
            LET settled == DebounceSettle(AsyncFn(resp))
            IN /\ requests' = [requests EXCEPT ![i].status = "done", ![i].response = resp]
               /\ calls' = [calls EXCEPT ![requests[i].call].promise = settled.promise,
                                         ![requests[i].call].result = settled.result]
  /\ UNCHANGED <<now, timeoutId, abortController, timers, aborted, cancels>>
  /\ UNCHANGED exceptAsync

Tick ==
  /\ now < MaxTime
  /\ ~TimerDue
  /\ now' = now + 1
  /\ UNCHANGED <<calls, requests, timeoutId, abortController, timers, aborted, cancels>>
  /\ UNCHANGED exceptAsync

\* The form plays no part here: it stays as constructed.
FormIdle ==
  /\ schema = conditionalFieldsSchema
  /\ state = createInitialState(EmptyObj)
  /\ last = Action("INIT", EmptyObj)
  /\ prev = state
  /\ submitted = <<>>
  /\ steps = 0

AsyncNext == Validate \/ Cancel \/ TimerFire \/ Respond \/ Tick

InitAsync == FormIdle /\ AsyncInit /\ AutosaveIdle /\ CallIdle

SpecAsync == InitAsync /\ [][AsyncNext]_vars

(***************************************************************************)
(* Properties of the async validator.                                      *)
(***************************************************************************)
RequestsOf(k) == {i \in 1..Len(requests) : requests[i].call = k}

\* A later validate call, or a cancel(), came before call k's delay elapsed.
Superseded(k) ==
  \/ \E j \in (k + 1)..Len(calls) : calls[j].at < calls[k].at + DebounceMs
  \/ \E c \in 1..Len(cancels) :
       cancels[c].after >= k /\ cancels[c].at < calls[k].at + DebounceMs

\* C6: a request is issued for a validate(v) call exactly when debounceMs
\* elapses after the call with no later validate call and no cancel(); the
\* request carries that call's value, there is at most one per call, and a
\* call followed within debounceMs by another call never produces a request,
\* so a burst produces one request, with the last call's value.
C6_RequestIffDebounceElapsed ==
  \A k \in 1..Len(calls) :
    /\ Cardinality(RequestsOf(k)) <= 1
    /\ \A i \in RequestsOf(k) :
         /\ requests[i].value = calls[k].value
         /\ requests[i].at = calls[k].at + DebounceMs
    /\ RequestsOf(k) # {} => ~Superseded(k)
    /\ (~Superseded(k) /\ now > calls[k].at + DebounceMs) => RequestsOf(k) # {}
    /\ (k < Len(calls) /\ calls[k + 1].at < calls[k].at + DebounceMs)
         => RequestsOf(k) = {}

\* A burst of two calls with different values, one tick apart, then silence.
C6_Witness ==
  /\ Len(calls) = 2
  /\ cancels = <<>>
  /\ calls[1].value # calls[2].value
  /\ calls[2].at = calls[1].at + 1
  /\ now > calls[2].at + DebounceMs
  /\ Len(requests) = 1
  /\ requests[1].call = 2
  /\ requests[1].value = calls[2].value

IsServerMessage(call) ==
  /\ call.promise = "resolved"
  /\ call.result # Null
  /\ call.result # Undefined

\* C7: a call whose request was in flight when validate was called again
\* never has its promise resolved with the server's validation message.
C7_SupersededResultDiscarded ==
  \A k \in 1..Len(calls) :
    calls[k].supersededInFlight => ~IsServerMessage(calls[k])

TransportFailed(resp) == resp.kind = "networkError" \/ (resp.kind = "http" /\ ~resp.ok)

DeclaredValid(resp) == resp.kind = "http" /\ resp.ok /\ resp.valid

AutosaveDebounceMs == 2
MaxClock == 4
MaxSaves == 2
MaxEvents == 4

Hosts == {"useAutosave", "FormRenderer"}

\* The values objects a render can receive, told apart by identity.
Snapshots == {1, 2}

\* The versions onSave can resolve with, and the currentVersion props.
Versions == {1, 2}

CurrentVersions == {0, 1}

S_saveFailed == <<"S", "a", "v", "e", " ", "f", "a", "i", "l", "e", "d">>

S_offline == <<"o", "f", "f", "l", "i", "n", "e">>

\* The dependency list of the autosave effect, without the constant entries;
\* useAutosave's save callback is a new function whenever values or
\* state.isSaving change.
EffectDeps(h, p, s) ==
  IF h = "useAutosave"
    THEN <<p.enabled, p.isDirty, p.values, s.isSaving>>
    ELSE <<p.enabled, p.isDirty, p.values>>

\* Variant: the effect does not look at isDirty.
EffectTimerIgnoresDirty(h, p, s, at) ==
  IF ~p.enabled THEN NoTimer
  ELSE [armed |-> TRUE, due |-> at + AutosaveDebounceMs, values |-> p.values,
        isSaving |-> IF h = "useAutosave" THEN s.isSaving ELSE FALSE]

\* The body of the autosave effect: the timer it sets, if any, with the
\* values and the isSaving flag its callback closes over.
EffectTimer(h, p, s, at) ==
  IF ~p.enabled \/ ~p.isDirty THEN NoTimer
  ELSE [armed |-> TRUE, due |-> at + AutosaveDebounceMs, values |-> p.values,
        isSaving |-> IF h = "useAutosave" THEN s.isSaving ELSE FALSE]

\* A render: when a dependency has changed the effect's cleanup clears the
\* timer and the effect runs again.
Rerender(h, oldProps, oldState, newProps, newState, timer, at) ==
  IF EffectDeps(h, newProps, newState) = EffectDeps(h, oldProps, oldState)
    THEN timer
    ELSE EffectTimer(h, newProps, newState, at)

\* The start of save(): nothing if the closure saw isSaving, else isSaving is
\* set and onSave is called.
SaveStart(s, closureIsSaving) ==
  IF closureIsSaving THEN [hook |-> s, invoked |-> FALSE]
  ELSE [hook |-> [s EXCEPT !.isSaving = TRUE, !.error = Null], invoked |-> TRUE]

\* Variant: the check does not look at the tracked version being positive.
VersionConflictAlways(e, r) == r # e + 1

\* The version check of save().
VersionConflict(e, r) == e > 0 /\ r # e + 1

\* save() after onSave has resolved with result.version = r.
SaveResolved(s, e, r, at) ==
  IF VersionConflict(e, r)
    THEN [hook |-> [s EXCEPT !.isSaving = FALSE, !.hasConflict = TRUE,
                             !.serverVersion = Num(r)],
          version |-> e]
    ELSE [hook |-> [s EXCEPT !.isSaving = FALSE, !.lastSaved = Num(at),
                             !.hasConflict = FALSE, !.serverVersion = Null],
          version |-> r]

\* save() after onSave has rejected with an error carrying this message.
SaveRejected(s, message) ==
  [s EXCEPT !.isSaving = FALSE,
            !.error = IF message = Str(S_empty) THEN Str(S_saveFailed) ELSE message]

\* One invocation of the save function: who made it and the values passed.
Invocation(by, values) == [by |-> by, values |-> values, status |-> "inflight"]

AutosaveTimerDue == timeoutRef.armed /\ timeoutRef.due <= clock

AutosaveInit ==
  /\ host \in Hosts
  /\ \E d \in BOOLEAN, en \in BOOLEAN, c \in CurrentVersions :
       /\ props = [values |-> 1, isDirty |-> d, enabled |-> en,
                   currentVersion |-> IF host = "useAutosave" THEN c ELSE 0]
       /\ versionRef = props.currentVersion
  /\ hook = InitialHookState
  /\ timeoutRef = EffectTimer(host, props, hook, 0)
  /\ saves = <<>>
  /\ clock = 0
  /\ lastChange = 0
  /\ event = Mounted

\* The component is rendered with other props.
NewProps(newProps, type) ==
  /\ ~AutosaveTimerDue
  /\ event.n < MaxEvents
  /\ props' = newProps
  /\ timeoutRef' = Rerender(host, props, hook, newProps, hook, timeoutRef, clock)
  /\ event' = Event(type, 0, 0)
  /\ UNCHANGED <<host, hook, saves, clock>>
  /\ UNCHANGED exceptAutosave

ChangeValues ==
  /\ \E v \in Snapshots \ {props.values}, d \in BOOLEAN :
       NewProps([props EXCEPT !.values = v, !.isDirty = d], "values")
  /\ lastChange' = clock
  /\ UNCHANGED versionRef

SetDirty ==
  /\ NewProps([props EXCEPT !.isDirty = ~props.isDirty], "isDirty")
  /\ UNCHANGED <<lastChange, versionRef>>

SetEnabled ==
  /\ NewProps([props EXCEPT !.enabled = ~props.enabled], "enabled")
  /\ UNCHANGED <<lastChange, versionRef>>

\* useEffect(() => { versionRef.current = currentVersion }, [currentVersion])
SetCurrentVersion ==
  /\ host = "useAutosave"
  /\ \E c \in CurrentVersions \ {props.currentVersion} :
       /\ NewProps([props EXCEPT !.currentVersion = c], "currentVersion")
       /\ versionRef' = c
  /\ UNCHANGED lastChange

\* save() is called with the closure of some render: the hook's state, the
\* invocation if one is made, and the render that follows.
CallSave(s, by, values, closureIsSaving, timer) ==
  LET r == SaveStart(s, closureIsSaving)
  IN /\ hook' = r.hook
     /\ saves' = IF r.invoked THEN Append(saves, Invocation(by, values)) ELSE saves
     /\ timeoutRef' = Rerender(host, props, hook, props, r.hook, timer, clock)
     /\ event' = IF r.invoked THEN Invoking(by) ELSE Event(by, 0, 0)

\* The timer's delay has elapsed: useAutosave's callback calls save(),
\* FormRendererInner's calls onAutosave(state.values).
TimerExpire ==
  /\ AutosaveTimerDue
  /\ event.n < MaxEvents
  /\ Len(saves) < MaxSaves
  /\ IF host = "useAutosave"
       THEN CallSave(hook, "timer", timeoutRef.values, timeoutRef.isSaving, NoTimer)
       ELSE /\ saves' = Append(saves, Invocation("timer", timeoutRef.values))
            /\ timeoutRef' = NoTimer
            /\ event' = Invoking("timer")
            /\ UNCHANGED hook
  /\ UNCHANGED <<host, props, versionRef, clock, lastChange>>
  /\ UNCHANGED exceptAutosave

\* The caller calls the save() the hook returned.
ManualSave ==
  /\ host = "useAutosave"
  /\ event.n < MaxEvents
  /\ ~AutosaveTimerDue
  /\ Len(saves) < MaxSaves
  /\ CallSave(hook, "manual", props.values, hook.isSaving, timeoutRef)
  /\ UNCHANGED <<host, props, versionRef, clock, lastChange>>
  /\ UNCHANGED exceptAutosave

\* The caller calls resolveConflict().
ResolveConflict ==
  /\ host = "useAutosave"
  /\ event.n < MaxEvents
  /\ ~AutosaveTimerDue
  /\ Len(saves) < MaxSaves \/ hook.isSaving
  /\ CallSave([hook EXCEPT !.hasConflict = FALSE, !.serverVersion = Null],
              "resolveConflict", props.values, hook.isSaving, timeoutRef)
  /\ UNCHANGED <<host, props, versionRef, clock, lastChange>>
  /\ UNCHANGED exceptAutosave

\* The promise of an invocation resolves.
SaveResolves ==
  /\ event.n < MaxEvents
  /\ \E i \in 1..Len(saves), r \in Versions :
       /\ saves[i].status = "inflight"
       /\ saves' = [saves EXCEPT ![i].status = "resolved"]
       /\ IF host = "useAutosave"
            THEN LET done == SaveResolved(hook, versionRef, r, clock)
                 IN /\ hook' = done.hook
                    /\ versionRef' = done.version
                    /\ timeoutRef' = Rerender(host, props, hook, props, done.hook,
                                              timeoutRef, clock)
                    /\ event' = Event("resolved", r, versionRef)
            ELSE /\ event' = Event("resolved", 0, 0)
                 /\ UNCHANGED <<hook, versionRef, timeoutRef>>
  /\ UNCHANGED <<host, props, clock, lastChange>>
  /\ UNCHANGED exceptAutosave

\* The promise of an invocation rejects.
SaveRejects ==
  /\ event.n < MaxEvents
  /\ \E i \in 1..Len(saves), message \in {Str(S_empty), Str(S_offline)} :
       /\ saves[i].status = "inflight"
       /\ saves' = [saves EXCEPT ![i].status = "rejected"]
       /\ IF host = "useAutosave"
            THEN /\ hook' = SaveRejected(hook, message)
                 /\ timeoutRef' = Rerender(host, props, hook, props, hook',
                                           timeoutRef, clock)
            ELSE UNCHANGED <<hook, timeoutRef>>
  /\ event' = Event("rejected", 0, 0)
  /\ UNCHANGED <<host, props, versionRef, clock, lastChange>>
  /\ UNCHANGED exceptAutosave

\* The caller calls clearError().
ClearError ==
  /\ host = "useAutosave"
  /\ event.n < MaxEvents
  /\ hook' = [hook EXCEPT !.error = Null]
  /\ event' = Event("clearError", 0, 0)
  /\ UNCHANGED <<host, props, versionRef, timeoutRef, saves, clock, lastChange>>
  /\ UNCHANGED exceptAutosave

TickClock ==
  /\ clock < MaxClock
  /\ ~AutosaveTimerDue
  /\ clock' = clock + 1
  /\ event' = [event EXCEPT !.type = "tick", !.invoked = FALSE,
                             !.hadConflict = hook.hasConflict]
  /\ UNCHANGED <<host, props, hook, versionRef, timeoutRef, saves, lastChange>>
  /\ UNCHANGED exceptAutosave

AutosaveNext ==
  \/ ChangeValues \/ SetDirty \/ SetEnabled \/ SetCurrentVersion
  \/ TimerExpire \/ ManualSave \/ ResolveConflict
  \/ SaveResolves \/ SaveRejects \/ ClearError \/ TickClock

InitAutosave == FormIdle /\ AsyncInit /\ AutosaveInit /\ CallIdle

SpecAutosave == InitAutosave /\ [][AutosaveNext]_vars

(***************************************************************************)
(* Properties of autosave.                                                 *)
(***************************************************************************)
LastInvocation == saves[Len(saves)]

\* What C9 says holds when the save function is invoked.
InvokedInTime ==
  /\ props.enabled
  /\ props.isDirty
  /\ clock - lastChange >= AutosaveDebounceMs
  /\ LastInvocation.values = props.values

InConflictWith(r) == hook.hasConflict /\ hook.serverVersion = Num(r)

Recorded(r) ==
  /\ versionRef = r
  /\ hook.lastSaved = Num(clock)
  /\ ~hook.hasConflict

Resolved == host = "useAutosave" /\ event.type = "resolved"

\* C10 as stated: when onSave resolves with version r and the tracked version
\* is e, the hook is in conflict with serverVersion = r iff r # e + 1, and
\* otherwise r is recorded, lastSaved is set and hasConflict is false; for
\* every e, the initial one included.
C10_ConflictIffNotIncrement_Original ==
  Resolved =>
    /\ InConflictWith(event.r) <=> event.r # event.e + 1
    /\ event.r = event.e + 1 => Recorded(event.r)

\* C10 (amended): when onSave resolves with version r and the tracked version
\* is e, the hook is in conflict with serverVersion = r iff e > 0 and
\* r # e + 1, the tracked version then staying e; otherwise (r = e + 1, or
\* e = 0 whatever r is) r is recorded, lastSaved is set, hasConflict is false
\* and serverVersion is null.
C10_ConflictIffNotIncrement ==
  Resolved =>
    /\ InConflictWith(event.r) <=> (event.e > 0 /\ event.r # event.e + 1)
    /\ InConflictWith(event.r) => versionRef = event.e
    /\ ~(event.e > 0 /\ event.r # event.e + 1) =>
         Recorded(event.r) /\ hook.serverVersion = Null

\* onSave has resolved with a version that is not the increment of a positive
\* tracked version, and the hook is in conflict.
C10_Witness ==
  /\ Resolved
  /\ event.e > 0
  /\ event.r # event.e + 1
  /\ InConflictWith(event.r)

\* C11: once hasConflict is true it stays true until resolveConflict() is
\* called: whatever else was handled last (a timer expiry, a change of the
\* values, a manual save(), the completion of a save), if the hook was in
\* conflict before it, it still is.
C11_ConflictUntilResolved ==
  (host = "useAutosave" /\ event.hadConflict /\ event.type # "resolveConflict")
    => hook.hasConflict

(***************************************************************************)
(* The validation pipeline called on its own: a caller hands one of the    *)
(* exported functions its arguments and gets the result back.              *)
(***************************************************************************)
MaxRules == 2

S_ab1 == <<"a", "b", "1">>

S_abc == <<"a", "b", "c">>

S_mail == <<"a", "@", "b", ".", "c">>

S_link == <<"h", "t", "t", "p", ":", "/", "/", "a">>

S_tel == <<"5", "5", "5", "-", "1", "2", "3", "4">>

ValidateValues ==
  {Undefined, Null, Str(S_empty), Str(S_blank), Str(S_ab1), Str(S_abc), Str(S_mail),
   Str(S_link), Str(S_tel), Num(0), Num(1), Num(3), Bool(TRUE), Bool(FALSE),
   Arr(1, <<>>), Arr(2, <<Str(S_no)>>)}

\* Rules of every type of the registry, of the types the sync pass cannot
\* run, and of types that are no own key of the registry.
RulePool ==
  {Rule("required", Undefined, ""), Rule("required", Undefined, "Needed"),
   Rule("minLength", Num(4), ""), Rule("maxLength", Num(2), ""),
   Rule("pattern", Str(S_lowerPattern), ""), Rule("pattern", Str(S_lowerPattern), "Letters only"),
   Rule("pattern", Str(S_badPattern), ""),
   Rule("email", Undefined, ""), Rule("url", Undefined, ""), Rule("phone", Undefined, ""),
   Rule("min", Num(1), ""), Rule("max", Num(1), ""),
   Rule("async", Str(S_link), ""), Rule("custom", Str(S_abc), ""),
   Rule("unknown", Undefined, ""), Rule("toString", Undefined, "")}

RECURSIVE SeqsUpTo(_, _)
SeqsUpTo(S, n) ==
  IF n = 0 THEN {<<>>}
  ELSE SeqsUpTo(S, n - 1) \cup {Append(q, x) : q \in {r \in SeqsUpTo(S, n - 1) : Len(r) = n - 1}, x \in S}

RuleLists == SeqsUpTo(RulePool, MaxRules)

InitValidate == FormIdle /\ AsyncInit /\ AutosaveIdle /\ CallIdle

CallValidateFieldSync ==
  /\ args = NoCall
  /\ \E value \in ValidateValues, rules \in RuleLists :
       /\ args' = [op |-> "validateFieldSync", fieldId |-> "age", value |-> value,
                   rules |-> rules, formValues |-> EmptyObj]
       /\ returned' = [op |-> "validateFieldSync",
                       value |-> validateFieldSync("age", value, rules, EmptyObj),
                       ran |-> validateFieldLoop(value, rules, 1, EmptyObj).ran]
  /\ UNCHANGED exceptCall

CallRequired ==
  /\ args = NoCall
  /\ \E value \in ValidateValues :
       /\ args' = [op |-> "required", value |-> value]
       /\ returned' = [op |-> "required", value |-> required(value)]
  /\ UNCHANGED exceptCall

ValidatedIds == {"age", "name"}

FieldSchemas(id) ==
  {[id |-> id],
   [id |-> id, validation |-> <<>>],
   [id |-> id, validation |-> <<Rule("required", Undefined, "")>>],
   [id |-> id, validation |-> <<Rule("required", Undefined, ""), Rule("min", Num(1), "")>>]}

\* Lists of fields with distinct ids.
FieldLists ==
  {<<>>}
    \cup {<<f>> : f \in FieldSchemas("age") \cup FieldSchemas("name")}
    \cup {<<f, g>> : f \in FieldSchemas("age"), g \in FieldSchemas("name")}
    \cup {<<g, f>> : f \in FieldSchemas("age"), g \in FieldSchemas("name")}

FormValueMaps ==
  {EmptyObj,
   [k \in {"age"} |-> Num(0)],
   [k \in {"age", "name"} |-> IF k = "age" THEN Num(3) ELSE Str(S_blank)],
   [k \in {"age", "name"} |-> IF k = "age" THEN Null ELSE Str(S_abc)]}

\* An option the caller leaves out takes its default: false, the empty set.
ValidateOptions ==
  [touchedOnly : BOOLEAN, touchedFields : SUBSET ValidatedIds, hiddenFields : SUBSET ValidatedIds]

CallValidateFormSync ==
  /\ args = NoCall
  /\ \E fields \in FieldLists, values \in FormValueMaps, options \in ValidateOptions :
       /\ args' = [op |-> "validateFormSync", fields |-> fields, values |-> values,
                   options |-> options]
       /\ returned' = [op |-> "validateFormSync",
                       value |-> validateFormSync(fields, values, options)]
  /\ UNCHANGED exceptCall

\* The caller takes the result; the next call can start.
CallReturn ==
  /\ args # NoCall
  /\ args' = NoCall
  /\ returned' = NoCall
  /\ UNCHANGED exceptCall

ValidateNext ==
  \/ CallValidateFieldSync
  \/ CallRequired
  \/ CallValidateFormSync
  \/ CallReturn

SpecValidate == InitValidate /\ [][ValidateNext]_vars

Called(op) == args.op = op

\* The positions of the rules the sync pass handles.
SyncPositions(rules) == {i \in 1..Len(rules) : rules[i].type # "async"}

\* The positions of the rules whose validator reports an error for the value.
Failing(value, rules) ==
  {i \in SyncPositions(rules) : validateRule(value, rules[i], EmptyObj) # NoError}

First(S) == CHOOSE i \in S : \A j \in S : i <= j

\* C12: validateFieldSync evaluates the non-async rules in order and returns
\* at most one error, that of the first rule whose validator fails: the
\* rule's own message if it has one, else the validator's text; failedRule is
\* that rule, no rule after it is evaluated, and isValid holds iff no rule
\* fails.
C12_FirstFailureOnly ==
  Called("validateFieldSync") =>
    LET failing == Failing(args.value, args.rules)
        result == returned.value
    IN /\ Len(result.errors) <= 1
       /\ result.isValid <=> failing = {}
       /\ failing = {} =>
            /\ result.errors = <<>>
            /\ result.failedRule = NoRule
            /\ returned.ran = SyncPositions(args.rules)
       /\ failing # {} =>
            LET f == First(failing)
                rule == args.rules[f]
            IN /\ result.errors =
                    <<IF rule.message # "" THEN rule.message
                      ELSE validateRule(args.value, rule, EmptyObj)>>
               /\ result.failedRule = rule
               /\ returned.ran = {i \in SyncPositions(args.rules) : i <= f}

\* Two rules fail for the value, the first with a message of its own; only
\* the first is evaluated and reported.
C12_Witness ==
  /\ Called("validateFieldSync")
  /\ Cardinality(Failing(args.value, args.rules)) = 2
  /\ args.rules[1].message # ""
  /\ returned.value.errors = <<args.rules[1].message>>
  /\ returned.ran = {1}

\* The value is absent, a string of nothing but white space, or false.
Missing(value) ==
  \/ value.t \in {"null", "undefined"}
  \/ value.t = "string" /\ \A i \in 1..Len(value.s) : value.s[i] \in WhiteSpace
  \/ value.t = "boolean" /\ value = Bool(FALSE)

\* C14: required reports an error iff the value is null or undefined, a
\* string whose trimmed form is empty, or false; every number (0 included),
\* true, every non-blank string and every array passes.
C14_RequiredIffMissing ==
  Called("required") =>
    /\ returned.value # NoError <=> Missing(args.value)
    /\ args.value.t \in {"number", "array"} => returned.value = NoError
    /\ args.value = Bool(TRUE) => returned.value = NoError

\* required was given the number 0 and passed it.
C14_Witness ==
  /\ Called("required")
  /\ args.value = Num(0)
  /\ returned.value = NoError

\* Field f of the list is one validateFormSync has to report: not hidden,
\* touched when only touched fields are asked for, with rules, and invalid.
Reportable(f) ==
  \E i \in 1..Len(args.fields) :
    LET field == args.fields[i]
    IN /\ field.id = f
       /\ f \notin args.options.hiddenFields
       /\ args.options.touchedOnly => f \in args.options.touchedFields
       /\ "validation" \in DOMAIN field
       /\ Len(field.validation) > 0
       /\ ~validateFieldSync(f, Get(args.values, f), field.validation, args.values).isValid

\* C15: validateFormSync puts f into fieldErrors iff f is not hidden, is
\* touched whenever touchedOnly is set, has at least one rule and
\* validateFieldSync finds values[f] invalid; errorCount is the number of
\* entries of fieldErrors, and isValid holds iff errorCount is 0.
C15_FieldErrorsMembership ==
  Called("validateFormSync") =>
    /\ \A f \in ValidatedIds : f \in DOMAIN returned.value.fieldErrors <=> Reportable(f)
    /\ DOMAIN returned.value.fieldErrors \subseteq ValidatedIds
    /\ returned.value.errorCount = Cardinality(DOMAIN returned.value.fieldErrors)
    /\ returned.value.isValid <=> returned.value.errorCount = 0

\* Two fields are invalid, one of them hidden: only the other is reported.
C15_Witness ==
  /\ Called("validateFormSync")
  /\ Len(args.fields) = 2
  /\ args.options.hiddenFields = {"name"}
  /\ ~validateFieldSync("name", Get(args.values, "name"), FieldRules(args.fields[2]),
                        args.values).isValid
  /\ args.fields[2].id = "name"
  /\ DOMAIN returned.value.fieldErrors = {"age"}
  /\ returned.value.errorCount = 1

\* The rules the sync pass cannot run: async, custom, and any type that is
\* not in the registry of sync validators.
CannotRun(rule) == rule.type \in {"async", "custom"} \/ rule.type \notin syncValidators

\* C16: rules of type async, custom or of an unknown type never produce an
\* error: validateFieldSync on the list without them gives the same isValid,
\* errors and failedRule.
C16_FailOpen ==
  Called("validateFieldSync") =>
    returned.value =
      validateFieldSync(args.fieldId, args.value,
                        SelectSeq(args.rules, LAMBDA rule : ~CannotRun(rule)), args.formValues)

(***************************************************************************)
(* A form with one number field, age, under the rules [required, min(m)]:  *)
(* the user changes the field and submits.                                 *)
(***************************************************************************)
AgeMinimums == {1, 18}

AgeMessages == {<<"", "">>, <<"Age is required", "You must be at least 18 years old">>}

ageSchema(m, messages) ==
  [sections |-> <<
     [id |-> "personal",
      fields |-> <<
        [id |-> "age",
         type |-> "number",
         validation |-> <<Rule("required", Undefined, messages[1]),
                          Rule("min", Num(m), messages[2])>>]
      >>]
   >>]

AgeSchemas == {ageSchema(m, messages) : m \in AgeMinimums, messages \in AgeMessages}

\* What NumberField's handleNumberChange stores: '' for a cleared input,
\* else the number parsed.
AgeValues == {Str(S_empty), Num(0), Num(1), Num(17), Num(18), Num(25)}

AgeFormInit ==
  /\ schema \in AgeSchemas
  /\ state = createInitialState(EmptyObj)
  /\ last = Action("INIT", EmptyObj)
  /\ prev = state
  /\ submitted = <<>>
  /\ steps = 0

InitAge == AgeFormInit /\ AsyncInit /\ AutosaveIdle /\ CallIdle

\* NumberField's setValue
ChangeAge ==
  /\ steps < MaxSteps
  /\ \E v \in AgeValues :
       Dispatch(Action("SET_FIELD_VALUE", [fieldId |-> "age", value |-> v, instanceIndex |-> NoIndex]))

AgeNext ==
  \/ ChangeAge
  \/ Submit

SpecAge == InitAge /\ [][AgeNext]_vars

AgeRules == allFields(schema)[1].validation

\* The error a failing rule reports: its message, else the validator's text.
RuleError(rule, value) ==
  IF rule.message # "" THEN rule.message ELSE validateRule(value, rule, EmptyObj)

\* C13: for the number field age with rules [required, min(m)], a submit
\* stores exactly the required rule's error when the value is absent, exactly
\* the min rule's error when the value is a number below m, and no error when
\* it is a number at or above m; then the selector isValid is true and
\* onSubmit is called.
C13_RequiredThenMin ==
  (Did("SUBMIT") /\ schema \in AgeSchemas) =>
    LET v == Get(prev.values, "age")
        m == AgeRules[2].value.n
    IN /\ (v = Undefined \/ v = Str(S_empty)) =>
            /\ ErrorsOf(state, "age") = <<RuleError(AgeRules[1], v)>>
            /\ RuleError(AgeRules[1], v) \in {"This field is required", "Age is required"}
            /\ ~last.payload.called
       /\ (v.t = "number" /\ v.n < m) =>
            /\ ErrorsOf(state, "age") = <<RuleError(AgeRules[2], v)>>
            /\ RuleError(AgeRules[2], v) \in
                 {"Must be at least " \o ToString(m), "You must be at least 18 years old"}
            /\ ~last.payload.called
       /\ (v.t = "number" /\ v.n >= m) =>
            /\ ErrorsOf(state, "age") = <<>>
            /\ selIsValid(state)
            /\ last.payload.called
            /\ Len(submitted) > 0 /\ submitted[Len(submitted)] = prev.values

\* The form was submitted with age equal to the minimum, and onSubmit got
\* the values.
C13_Witness ==
  /\ Did("SUBMIT")
  /\ schema \in AgeSchemas
  /\ Get(prev.values, "age") = Num(AgeRules[2].value.n)
  /\ selIsValid(state)
  /\ submitted = <<prev.values>>
  /\ last.payload.called

(***************************************************************************)
(* The repeatable sections under the reducer: instances are added with     *)
(* default values, removed by index, and their fields are written under    *)
(* scoped keys.                                                            *)
(***************************************************************************)
MaxSectionSteps == 3

RepeatableIds == {"items", "attendees"}

S_widget == <<"w">>

S_gadget == <<"g">>

InstanceDefaults ==
  {EmptyObj, [k \in {"productId"} |-> Str(S_widget)], [k \in {"productId"} |-> Str(S_gadget)]}

\* In range for the lists the steps can build, and out of range.
RemovePositions == {0, 1, 2, 7}

InitSections == FormIdle /\ AsyncInit /\ AutosaveIdle /\ CallIdle

AddInstance ==
  /\ steps < MaxSectionSteps
  /\ \E sec \in RepeatableIds, m \in InstanceDefaults :
       Dispatch(Action("ADD_SECTION_INSTANCE", [sectionId |-> sec, defaultValues |-> m]))

RemoveInstance ==
  /\ steps < MaxSectionSteps
  /\ \E sec \in RepeatableIds, i \in RemovePositions :
       Dispatch(Action("REMOVE_SECTION_INSTANCE", [sectionId |-> sec, instanceIndex |-> i]))

\* A field of an instance is edited: the field state is kept under fieldId[k].
EditInstanceField ==
  /\ steps < MaxSectionSteps
  /\ \E i \in {0, 1}, v \in {Str(S_widget), Str(S_gadget)} :
       Dispatch(Action("SET_FIELD_VALUE", [fieldId |-> "productId", value |-> v, instanceIndex |-> i]))

SectionsNext ==
  \/ AddInstance
  \/ RemoveInstance
  \/ EditInstanceField

SpecSections == InitSections /\ [][SectionsNext]_vars

InstancesOf(s, sectionId) == SectionOrEmpty(s.repeatableSections, sectionId).instances

\* C17: ADD_SECTION_INSTANCE appends one instance and leaves the existing
\* ones and their order as they were; REMOVE_SECTION_INSTANCE(i) with
\* 0 <= i < N deletes exactly the instance at position i and keeps the order
\* of the others; a removal with an index out of range or for an unknown
\* section leaves the instances unchanged.
C17_InstancesAreOrderedList ==
  LET sec == last.payload.sectionId
      old == InstancesOf(prev, sec)
      new == InstancesOf(state, sec)
      N == Len(old)
  IN /\ Did("ADD_SECTION_INSTANCE") =>
          /\ Len(new) = N + 1
          /\ SubSeq(new, 1, N) = old
          /\ new[N + 1] = [k \in DOMAIN last.payload.defaultValues |->
                             createFieldState(last.payload.defaultValues[k])]
     /\ Did("REMOVE_SECTION_INSTANCE") =>
          LET i == last.payload.instanceIndex
          IN IF sec \in DOMAIN prev.repeatableSections /\ 0 <= i /\ i < N
               THEN /\ Len(new) = N - 1
                    /\ \A j \in 1..(N - 1) : new[j] = IF j <= i THEN old[j] ELSE old[j + 1]
               ELSE /\ new = old
                    /\ DOMAIN state.repeatableSections = DOMAIN prev.repeatableSections

\* The first of two different instances was removed: the one formerly at
\* index 1 is the only one left.
C17_Witness ==
  /\ Did("REMOVE_SECTION_INSTANCE")
  /\ last.payload.instanceIndex = 0
  /\ Len(InstancesOf(prev, last.payload.sectionId)) = 2
  /\ InstancesOf(prev, last.payload.sectionId)[1] # InstancesOf(prev, last.payload.sectionId)[2]
  /\ InstancesOf(state, last.payload.sectionId) = <<InstancesOf(prev, last.payload.sectionId)[2]>>

\* C18: REMOVE_SECTION_INSTANCE changes only the instance list of the section
\* it addresses: values, fields (every scoped key fieldId[k] included),
\* initialValues, the other sections, the submit state and the autosave state
\* are unchanged.
C18_RemoveFrame ==
  Did("REMOVE_SECTION_INSTANCE") =>
    /\ state.values = prev.values
    /\ state.fields = prev.fields
    /\ state.initialValues = prev.initialValues
    /\ state.isSubmitting = prev.isSubmitting
    /\ state.submitCount = prev.submitCount
    /\ state.autosave = prev.autosave
    /\ \A sec \in DOMAIN prev.repeatableSections \cup DOMAIN state.repeatableSections :
         sec # last.payload.sectionId =>
           /\ sec \in DOMAIN prev.repeatableSections
           /\ sec \in DOMAIN state.repeatableSections
           /\ state.repeatableSections[sec] = prev.repeatableSections[sec]

\* An instance was removed while a field state was stored under its scoped
\* key, and the key is still there.
C18_Witness ==
  /\ Did("REMOVE_SECTION_INSTANCE")
  /\ last.payload.instanceIndex = 0
  /\ Len(InstancesOf(prev, last.payload.sectionId)) = 1
  /\ InstancesOf(state, last.payload.sectionId) = <<>>
  /\ getFieldKey("productId", 0) \in DOMAIN state.fields

(***************************************************************************)
(* RepeatableSection rendered for a section with minInstances and          *)
(* maxInstances: the user presses Add, presses an instance's Remove, and   *)
(* edits an instance's field.                                              *)
(***************************************************************************)
MinInstances == {0, 1, 2}

MaxInstances == {2, 3}

repeatableSchema(m, M) ==
  [sections |-> <<
     [id |-> "attendees",
      repeatable |-> TRUE,
      minInstances |-> m,
      maxInstances |-> M,
      fields |-> <<[id |-> "productId"]>>]
   >>]

RepeatableSchemas == {repeatableSchema(m, M) : m \in MinInstances, M \in MaxInstances}

\* FormProvider's initial state under FormRenderer: no section has instances.
RepeatableFormInit ==
  /\ schema \in RepeatableSchemas
  /\ state = createInitialState(EmptyObj)
  /\ last = Action("INIT", EmptyObj)
  /\ prev = state
  /\ submitted = <<>>
  /\ steps = 0

InitRepeatable == RepeatableFormInit /\ AsyncInit /\ AutosaveIdle /\ CallIdle

\* The section RepeatableSection is rendered for, and its props.
section == schema.sections[1]

instanceCount == Len(InstancesOf(state, section.id))

canAdd == instanceCount < section.maxInstances

canRemove == instanceCount > section.minInstances

\* addInstance() of useRepeatableSection, without default values
handleAdd ==
  /\ steps < MaxSectionSteps
  /\ canAdd
  /\ Dispatch(Action("ADD_SECTION_INSTANCE", [sectionId |-> section.id, defaultValues |-> EmptyObj]))

\* The Remove button of a rendered instance
handleRemove ==
  /\ steps < MaxSectionSteps
  /\ canRemove
  /\ \E i \in 0..(instanceCount - 1) :
       Dispatch(Action("REMOVE_SECTION_INSTANCE", [sectionId |-> section.id, instanceIndex |-> i]))

\* `${fieldId}[${instanceIndex}]`
getScopedFieldId(instanceIndex, fieldId) == fieldId \o "[" \o ToString(instanceIndex) \o "]"

\* A field of a rendered instance is edited: the field component is given the
\* scoped id as its schema id and calls useField(schema.id).setValue.
handleChange ==
  /\ steps < MaxSectionSteps
  /\ \E i \in 0..(instanceCount - 1), v \in {Str(S_widget), Str(S_gadget)} :
       Dispatch(Action("SET_FIELD_VALUE",
                       [fieldId |-> getScopedFieldId(i, "productId"), value |-> v,
                        instanceIndex |-> NoIndex]))

RepeatableNext ==
  \/ handleAdd
  \/ handleRemove
  \/ handleChange

SpecRepeatable == InitRepeatable /\ [][RepeatableNext]_vars

\* C19: for a repeatable section with minInstances = m and maxInstances = M
\* rendered by RepeatableSection, m <= count <= M in every reachable state:
\* the section starts with at least m instances, Remove never takes the count
\* below m and Add never takes it above M.
C19_CountWithinBounds ==
  schema \in RepeatableSchemas =>
    /\ section.minInstances <= instanceCount
    /\ instanceCount <= section.maxInstances

(***************************************************************************)
(* Bulk updates of the form's values, under Spec.                          *)
(***************************************************************************)
\* C20: SET_VALUES(v, isInitial) merges v into values, the keys not in v
\* keeping their value; with isInitial the baseline initialValues becomes v
\* and every field of v gets dirty = false; without it initialValues is
\* unchanged and every field f of v gets dirty = (v[f] !== initialValues[f]).
C20_SetValues ==
  Did("SET_VALUES") =>
    LET v == last.payload.values
    IN /\ DOMAIN state.values = DOMAIN prev.values \cup DOMAIN v
       /\ \A k \in DOMAIN state.values :
            state.values[k] = IF k \in DOMAIN v THEN v[k] ELSE prev.values[k]
       /\ last.payload.isInitial =>
            /\ state.initialValues = v
            /\ \A f \in DOMAIN v : ~state.fields[f].dirty
       /\ ~last.payload.isInitial =>
            /\ state.initialValues = prev.initialValues
            /\ \A f \in DOMAIN v :
                 state.fields[f].dirty <=> v[f] # Get(prev.initialValues, f)

\* A dirty field was set back to its baseline value by a SET_VALUES that is
\* not initial, next to a key the values kept: the field is no longer dirty.
C20_Witness ==
  /\ Did("SET_VALUES")
  /\ ~last.payload.isInitial
  /\ \E f \in DOMAIN last.payload.values :
       /\ f \in DOMAIN prev.fields
       /\ prev.fields[f].dirty
       /\ ~state.fields[f].dirty
       /\ last.payload.values[f] = Get(prev.initialValues, f)

(***************************************************************************)
(* The submit counter and the reset, under Spec.                           *)
(***************************************************************************)
\* C21: submitCount is the number of SET_SUBMITTING(true) reduced since the
\* state was created: it starts at 0, SET_SUBMITTING(true) adds exactly 1,
\* and SET_SUBMITTING(false) and every other operation (RESET_FORM included)
\* leave it as it was.
C21_SubmitCount ==
  /\ steps = 0 => state.submitCount = 0
  /\ steps > 0 =>
       state.submitCount =
         prev.submitCount
           + (IF Did("SET_SUBMITTING") /\ last.payload.submitting THEN 1 ELSE 0)
  /\ state.submitCount <= steps

\* A RESET_FORM after a SET_SUBMITTING(true): the count is still 1.
C21_Witness ==
  /\ Did("RESET_FORM")
  /\ prev.submitCount = 1
  /\ prev.isSubmitting
  /\ state.submitCount = 1

\* The values RESET_FORM resets to.
ResetValues == IF last.payload.hasValues THEN last.payload.values ELSE prev.initialValues

\* C22 as stated: the state after RESET_FORM is the state of a freshly
\* created session for the reset values.
C22_ResetDiscardsAll_Original ==
  Did("RESET_FORM") => state = createInitialState(ResetValues)

\* C22 (amended): RESET_FORM replaces values by the reset values, fields by a
\* fresh FieldState per reset value, empties repeatableSections and sets
\* isSubmitting to false; submitCount, the autosave sub-state and
\* initialValues are those of the state before the reset.
C22_ResetDiscardsAll ==
  Did("RESET_FORM") =>
    /\ state.values = ResetValues
    /\ DOMAIN state.fields = DOMAIN ResetValues
    /\ \A k \in DOMAIN state.fields :
         state.fields[k] =
           [value |-> IF ResetValues[k] = Undefined THEN Null ELSE ResetValues[k],
            touched |-> FALSE, dirty |-> FALSE, validating |-> FALSE, errors |-> <<>>]
    /\ state.repeatableSections = EmptyObj
    /\ ~state.isSubmitting
    /\ state.submitCount = prev.submitCount
    /\ state.autosave = prev.autosave
    /\ state.initialValues = prev.initialValues

\* A RESET_FORM with explicit values on a state in conflict: the conflict and
\* the old baseline are still there.
C22_Witness ==
  /\ Did("RESET_FORM")
  /\ last.payload.hasValues
  /\ prev.autosave.hasConflict
  /\ state.autosave.hasConflict
  /\ state.initialValues # state.values

(***************************************************************************)
(* The condition resolver called on its own: evaluateCondition is handed a *)
(* condition tree and a values snapshot.                                   *)
(***************************************************************************)
Operators ==
  {"equals", "notEquals", "contains", "greaterThan", "lessThan", "isEmpty", "isNotEmpty",
   "in", "notIn"}

\* The operators of the schema language and one that is none of them.
OperatorPool == Operators \cup {"startsWith"}

\* condition.value: left out, a string, a number, a list, the empty list.
Comparands ==
  {Undefined, Str(S_yes), Num(1), Arr(3, <<Str(S_yes), Num(0), Bool(FALSE)>>), Arr(4, <<>>)}

\* values.status, values.status.length, values.missing.status
FieldPaths == {<<"status">>, <<"status", "length">>, <<"missing", "status">>}

SimpleConditions ==
  {[field |-> f, operator |-> op] : f \in FieldPaths, op \in OperatorPool}
    \cup {[field |-> f, operator |-> op, value |-> v] :
            f \in FieldPaths, op \in OperatorPool, v \in Comparands \ {Undefined}}

\* Objects with none of the shapes simple / and / or / not.
ShapelessConditions ==
  {EmptyObj, [k \in {"field"} |-> <<"status">>], [k \in {"operator"} |-> "equals"],
   [k \in {"all"} |-> <<>>]}

\* The leaves the compound conditions of the model are built from.
Leaves ==
  {[field |-> <<"status">>, operator |-> "equals", value |-> Str(S_yes)],
   [field |-> <<"status">>, operator |-> "isEmpty"],
   [field |-> <<"status">>, operator |-> "in", value |-> Arr(3, <<Str(S_yes), Num(0), Bool(FALSE)>>)],
   [field |-> <<"status", "length">>, operator |-> "greaterThan", value |-> Num(1)],
   [field |-> <<"status">>, operator |-> "startsWith", value |-> Str(S_yes)],
   [k \in {"all"} |-> <<>>]}

Not(c) == [k \in {"not"} |-> c]

And(cs) == [k \in {"and"} |-> cs]

Or(cs) == [k \in {"or"} |-> cs]

ListsUpTo2(S) == {<<>>} \cup {<<c>> : c \in S} \cup {<<c, d>> : c \in S, d \in S}

Compounds(S) ==
  {Not(c) : c \in S} \cup {And(cs) : cs \in ListsUpTo2(S)} \cup {Or(cs) : cs \in ListsUpTo2(S)}

\* Trees of depth up to two over the leaves.
ConditionTrees ==
  Compounds(Leaves)
    \cup {Not(c) : c \in Compounds(Leaves)}
    \cup {And(cs) : cs \in ListsUpTo2({Not(c) : c \in Leaves} \cup {And(<<>>), Or(<<>>)})}
    \cup {Or(cs) : cs \in ListsUpTo2({Not(c) : c \in Leaves} \cup {And(<<>>), Or(<<>>)})}

Conditions == SimpleConditions \cup ShapelessConditions \cup ConditionTrees

\* Snapshots: status absent, null, and of every kind of FieldValue.
Snapshots_status ==
  {Undefined, Null, Str(S_empty), Str(S_blank), Str(S_yes), Str(S_no), Num(0), Num(1),
   Bool(FALSE), Bool(TRUE), Arr(5, <<>>), Arr(6, <<Str(S_yes)>>)}

ValueSnapshots ==
  {EmptyObj} \cup {[k \in {"status"} |-> v] : v \in Snapshots_status}

InitResolve == FormIdle /\ AsyncInit /\ AutosaveIdle /\ CallIdle

CallEvaluateCondition ==
  /\ args = NoCall
  /\ \E condition \in Conditions, values \in ValueSnapshots :
       /\ args' = [op |-> "evaluateCondition", condition |-> condition, values |-> values]
       /\ returned' = [op |-> "evaluateCondition",
                       value |-> evaluateCondition(condition, values)]
  /\ UNCHANGED exceptCall

ResolveNext ==
  \/ CallEvaluateCondition
  \/ CallReturn

SpecResolve == InitResolve /\ [][ResolveNext]_vars

Has(key) == Called("evaluateCondition") /\ DOMAIN args.condition = {key}

\* C23: compound conditions mean the Boolean connectives over their
\* children's results: {not: C} is the negation of C, {and: cs} holds iff
\* every child holds (true for the empty list), {or: cs} iff some child holds
\* (false for the empty list).
C23_Connectives ==
  /\ Has("not") =>
       returned.value = ~evaluateCondition(args.condition.not, args.values)
  /\ Has("and") =>
       returned.value =
         \A i \in 1..Len(args.condition.and) :
           evaluateCondition(args.condition.and[i], args.values)
  /\ Has("or") =>
       returned.value =
         \E i \in 1..Len(args.condition.or) :
           evaluateCondition(args.condition.or[i], args.values)

\* A negation of a conjunction of two leaves, one true and one false, is true.
C23_Witness ==
  /\ Has("not")
  /\ DOMAIN args.condition.not = {"and"}
  /\ Len(args.condition.not.and) = 2
  /\ evaluateCondition(args.condition.not.and[1], args.values)
  /\ ~evaluateCondition(args.condition.not.and[2], args.values)
  /\ returned.value

IsSimple(op) ==
  /\ Called("evaluateCondition")
  /\ "field" \in DOMAIN args.condition
  /\ "operator" \in DOMAIN args.condition
  /\ args.condition.operator = op

\* The value the condition's path leads to in the snapshot handed over.
LookedUp == getNestedValue(args.values, args.condition.field)

\* The value is absent, a string of white space only, or an empty list.
Blank(value) ==
  \/ value.t \in {"null", "undefined"}
  \/ value.t = "string" /\ \A i \in 1..Len(value.s) : value.s[i] \in WhiteSpace
  \/ value.t = "array" /\ value.a = <<>>

\* C24: isEmpty is true exactly when the looked-up value is absent, a string
\* whose trimmed length is 0 or a list of length 0, hence false for every
\* number and boolean; isNotEmpty is its negation.
C24_IsEmpty ==
  /\ IsSimple("isEmpty") =>
       /\ returned.value <=> Blank(LookedUp)
       /\ LookedUp.t \in {"number", "boolean"} => ~returned.value
  /\ IsSimple("isNotEmpty") => (returned.value <=> ~Blank(LookedUp))

\* isEmpty was asked about the number 0 and answered false.
C24_Witness ==
  /\ IsSimple("isEmpty")
  /\ LookedUp = Num(0)
  /\ ~returned.value

\* condition.value, undefined when left out
Comparand == IF "value" \in DOMAIN args.condition THEN args.condition.value ELSE Undefined

\* C25: with a list as comparand, in is true iff the field value is a member
\* of it and notIn is the negation; with any other comparand in is false and
\* notIn is true.
C25_InNotIn ==
  /\ IsSimple("in") =>
       returned.value =
         (Comparand.t = "array" /\ \E i \in 1..Len(Comparand.a) : Comparand.a[i] = LookedUp)
  /\ IsSimple("notIn") =>
       returned.value =
         (Comparand.t = "array" => \A i \in 1..Len(Comparand.a) : Comparand.a[i] # LookedUp)

\* in found the field value in the list.
C25_Witness ==
  /\ IsSimple("in")
  /\ Comparand.t = "array"
  /\ LookedUp = Num(0)
  /\ returned.value

\* C26: a simple condition with an operator that is none of the nine, and a
\* condition of none of the shapes simple / and / or / not, evaluate to true;
\* a path whose intermediate value is missing reads as absent.
C26_FailOpen ==
  Called("evaluateCondition") =>
    /\ returned.value \in BOOLEAN
    /\ (\E op \in OperatorPool \ Operators : IsSimple(op)) => returned.value
    /\ DOMAIN args.condition \cap {"and", "or", "not"} = {}
         /\ ~{"field", "operator"} \subseteq DOMAIN args.condition
         => returned.value
    /\ (/\ IsSimple("isEmpty")
        /\ Len(args.condition.field) = 2
        /\ Get(args.values, args.condition.field[1]).t \in {"null", "undefined"})
         => returned.value

\* An unknown operator was evaluated on a path through a missing value, and
\* is true.
C26_Witness ==
  /\ IsSimple("startsWith")
  /\ args.condition.field = <<"missing", "status">>
  /\ returned.value

(***************************************************************************)
(* Callers of useAutosave that call save() more than once before the hook  *)
(* has rendered again.  save closes over the state.isSaving of the render  *)
(* that made it, and setState takes effect with the next render.           *)
(***************************************************************************)
\* One event of the caller calls save() twice: both calls are made on the
\* save of the current render, the second after the first has returned its
\* promise.
SaveTwice ==
  /\ host = "useAutosave"
  /\ event.n < MaxEvents
  /\ ~AutosaveTimerDue
  /\ Len(saves) + 1 < MaxSaves
  /\ LET first == SaveStart(hook, hook.isSaving)
         second == SaveStart(first.hook, hook.isSaving)
         invoked == (IF first.invoked THEN <<Invocation("manual", props.values)>> ELSE <<>>)
                      \o (IF second.invoked THEN <<Invocation("manual", props.values)>> ELSE <<>>)
     IN /\ hook' = second.hook
        /\ saves' = saves \o invoked
        /\ timeoutRef' = Rerender(host, props, hook, props, second.hook, timeoutRef, clock)
        /\ event' = IF invoked # <<>> THEN Invoking("manual") ELSE Event("manual", 0, 0)
  /\ UNCHANGED <<host, props, versionRef, clock, lastChange>>
  /\ UNCHANGED exceptAutosave

CallersNext ==
  \/ AutosaveNext
  \/ SaveTwice

SpecAutosaveCallers == InitAutosave /\ [][CallersNext]_vars

SavesInFlight == {i \in 1..Len(saves) : saves[i].status = "inflight"}

\* C27: for one useAutosave instance at most one onSave call is in flight at
\* any time.
C27_OneSaveInFlight == host = "useAutosave" => Cardinality(SavesInFlight) <= 1

(***************************************************************************)
(* useFieldValidation: one hook instance for the field "address".  calls,  *)
(* requests, timers, timeoutId (timeoutRef.current), abortController       *)
(* (abortControllerRef.current) and aborted are the hook's; args holds its *)
(* options and returned the isValidating it returns.                       *)
(***************************************************************************)
S_checkUrl == "/api/check"

\* { type: 'async', url }, url "" when left out
AsyncRule(endpoint) ==
  [type |-> "async", value |-> Undefined, message |-> "", url |-> endpoint]

HookRuleLists ==
  {<<Rule("required", Undefined, ""), AsyncRule(S_checkUrl)>>,
   <<AsyncRule(S_checkUrl)>>,
   <<Rule("required", Undefined, "")>>,
   <<AsyncRule("")>>}

HookValues == {Str(S_empty), Str(S_yes), Str(S_no)}

\* What the validation endpoint can answer; message "" when it sends none.
FieldResponses ==
  {Response("networkError", FALSE, FALSE, ""),
   Response("http", FALSE, FALSE, ""),
   Response("http", TRUE, TRUE, ""),
   Response("http", TRUE, FALSE, "Already taken"),
   Response("http", TRUE, FALSE, "")}

HookMounted ==
  /\ \E rules \in HookRuleLists :
       args = [op |-> "useFieldValidation", fieldId |-> "address", rules |-> rules]
  /\ returned = [op |-> "useFieldValidation", isValidating |-> FALSE]

InitFieldValidation == FormIdle /\ AsyncInit /\ AutosaveIdle /\ HookMounted

\* rules.find(r => r.type === 'async')
FindAsyncRule(rules) ==
  LET found == {i \in 1..Len(rules) : rules[i].type = "async"}
  IN IF found = {} THEN NoRule
     ELSE rules[CHOOSE i \in found : \A j \in found : i <= j]

\* errorMessage ? [errorMessage] : []
ErrorList(errorMessage) == IF errorMessage # NoError THEN <<errorMessage>> ELSE <<>>

\* Variant: fetch is given no signal.
HookFetchSignalNone(controller) == 0

\* signal: abortControllerRef.current?.signal, read when the timer fires
HookFetchSignal(controller) == controller

\* dispatch(formActions.setFieldError(fieldId, errors)) made by call k
HookDispatch(errors) ==
  /\ state' = formReducer(state, setFieldError(args.fieldId, errors, NoIndex))
  /\ last' = setFieldError(args.fieldId, errors, NoIndex)
  /\ prev' = state
  /\ steps' = steps + 1

\* validate(value)
HookValidate ==
  /\ Len(calls) < MaxCalls
  /\ ~TimerDue
  /\ \E v \in HookValues :
       LET k == Len(calls) + 1
           syncResult == validateFieldSync(args.fieldId, v, args.rules, state.values)
           errorMessage == IF Len(syncResult.errors) > 0 THEN syncResult.errors[1] ELSE NoError
           asyncRule == FindAsyncRule(args.rules)
           call == [value |-> v, at |-> now, promise |-> "pending", result |-> NoError,
                    wroteAt |-> <<>>]
       IN /\ aborted' = Abort(aborted, abortController)
          /\ IF ~syncResult.isValid
               THEN /\ HookDispatch(ErrorList(errorMessage))
                    /\ calls' = Append(calls, [call EXCEPT !.promise = "resolved",
                                                           !.result = errorMessage,
                                                           !.wroteAt = <<k>>])
                    /\ timers' = ClearTimeout(timers, timeoutId)
                    /\ UNCHANGED <<timeoutId, abortController, returned>>
             ELSE IF asyncRule = NoRule
               THEN /\ HookDispatch(<<>>)
                    /\ calls' = Append(calls, [call EXCEPT !.promise = "resolved",
                                                           !.wroteAt = <<k>>])
                    /\ timers' = ClearTimeout(timers, timeoutId)
                    /\ UNCHANGED <<timeoutId, abortController, returned>>
             ELSE /\ returned' = [returned EXCEPT !.isValidating = TRUE]
                  /\ abortController' = k
                  /\ timeoutId' = k
                  /\ timers' = RunTimers(timers, timeoutId, k, now)
                  /\ calls' = Append(calls, call)
                  /\ UNCHANGED <<state, last, prev, steps>>
  /\ UNCHANGED <<schema, submitted, now, requests, cancels, args>>
  /\ UNCHANGED autosaveVars

\* The debounce delay of a call has elapsed: without a url the call resolves
\* with null, else fetch is called.
HookTimerFire ==
  /\ TimerDue
  /\ \E tm \in timers :
       /\ tm.due <= now
       /\ timers' = timers \ {tm}
       /\ IF FindAsyncRule(args.rules).url = ""
            THEN /\ returned' = [returned EXCEPT !.isValidating = FALSE]
                 /\ calls' = [calls EXCEPT ![tm.id].promise = "resolved"]
                 /\ UNCHANGED requests
            ELSE /\ requests' = Append(requests,
                                       [call |-> tm.id, value |-> calls[tm.id].value,
                                        at |-> now, status |-> "inflight",
                                        signal |-> HookFetchSignal(abortController),
                                        latest |-> Len(calls),
                                        response |-> NoResponse])
                 /\ UNCHANGED <<calls, returned>>
  /\ UNCHANGED <<now, timeoutId, abortController, aborted, cancels, args>>
  /\ UNCHANGED <<formVars, autosaveVars>>

\* A fetch rejects with AbortError once its signal is aborted, and with what
\* the network and the server do otherwise.
HookResponses(request) ==
  IF request.signal # 0 /\ request.signal \in aborted
    THEN {Response("abortError", FALSE, FALSE, "")}
    ELSE FieldResponses

\* await fetch(...) settles: the catch block, or on to response.json().
HookFetchSettles ==
  /\ ~TimerDue
  /\ \E i \in 1..Len(requests) :
       /\ requests[i].status = "inflight"
       /\ \E resp \in HookResponses(requests[i]) :
            IF resp.kind = "abortError"
              THEN /\ requests' = [requests EXCEPT ![i].status = "done", ![i].response = resp]
                   /\ calls' = [calls EXCEPT ![requests[i].call].promise = "resolved"]
                   /\ UNCHANGED returned
            ELSE IF resp.kind = "networkError" \/ ~resp.ok
              THEN /\ requests' = [requests EXCEPT ![i].status = "done", ![i].response = resp]
                   /\ calls' = [calls EXCEPT ![requests[i].call].promise = "resolved"]
                   /\ returned' = [returned EXCEPT !.isValidating = FALSE]
            ELSE /\ requests' = [requests EXCEPT ![i].status = "body", ![i].response = resp]
                 /\ UNCHANGED <<calls, returned>>
  /\ UNCHANGED <<now, timeoutId, abortController, timers, aborted, cancels, args>>
  /\ UNCHANGED <<formVars, autosaveVars>>

\* await response.json() settles: it rejects with AbortError when the signal
\* has been aborted meanwhile, else the result is dispatched.
HookBodyRead ==
  /\ ~TimerDue
  /\ \E i \in 1..Len(requests) :
       /\ requests[i].status = "body"
       /\ LET k == requests[i].call
              resp == requests[i].response
              errorMessage == IF resp.valid THEN NoError ELSE resp.message
          IN IF requests[i].signal # 0 /\ requests[i].signal \in aborted
               THEN /\ requests' = [requests EXCEPT
                                      ![i].status = "done",
                                      ![i].response = Response("abortError", FALSE, FALSE, "")]
                    /\ calls' = [calls EXCEPT ![k].promise = "resolved"]
                    /\ UNCHANGED <<state, last, prev, steps, returned>>
               ELSE /\ HookDispatch(ErrorList(errorMessage))
                    /\ returned' = [returned EXCEPT !.isValidating = FALSE]
                    /\ requests' = [requests EXCEPT ![i].status = "done"]
                    /\ calls' = [calls EXCEPT ![k].promise = "resolved",
                                              ![k].result = errorMessage,
                                              ![k].wroteAt = Append(@, Len(calls))]
  /\ UNCHANGED <<schema, submitted, now, timeoutId, abortController, timers, aborted,
                 cancels, args>>
  /\ UNCHANGED autosaveVars

HookTick ==
  /\ now < MaxTime
  /\ ~TimerDue
  /\ now' = now + 1
  /\ UNCHANGED <<calls, requests, timeoutId, abortController, timers, aborted, cancels>>
  /\ UNCHANGED exceptAsync

FieldValidationNext ==
  \/ HookValidate
  \/ HookTimerFire
  \/ HookFetchSettles
  \/ HookBodyRead
  \/ HookTick

SpecFieldValidation == InitFieldValidation /\ [][FieldValidationNext]_vars

\* C28: a validation superseded by a later validate call never dispatches
\* SET_FIELD_ERROR: a call whose timer was still pending issues no request,
\* and every write into state was made by the call that was the most recent
\* one at the time of the write (a call writes at most once, and the state
\* has been written to by nothing else).
C28_SupersededNeverWrites ==
  /\ \A i \in 1..Len(requests) : requests[i].latest = requests[i].call
  /\ \A k \in 1..Len(calls) : \A w \in 1..Len(calls[k].wroteAt) : calls[k].wroteAt[w] = k
  /\ \A k \in 1..Len(calls) : Len(calls[k].wroteAt) <= 1
  /\ steps = Cardinality({k \in 1..Len(calls) : calls[k].wroteAt # <<>>})

\* A request was superseded in flight and ended without a write; the call
\* that superseded it wrote the server's message.
C28_Witness ==
  /\ Len(requests) = 2
  /\ requests[1].response.kind = "abortError"
  /\ requests[1].latest = requests[1].call
  /\ calls[requests[1].call].wroteAt = <<>>
  /\ calls[requests[2].call].wroteAt = <<requests[2].call>>
  /\ state.fields["address"].errors = <<"Already taken">>

(***************************************************************************)
(* Hidden fields and their values, under Spec.                             *)
(***************************************************************************)
\* The field holds no value: no entry, undefined, null or the empty string.
Cleared(values, fieldId) ==
  \/ IsNullish(Get(values, fieldId))
  \/ Get(values, fieldId) = Str(S_empty)

\* C29: when a value change makes a field's showWhen evaluate false, the
\* hidden field's value is cleared from values, and no submit hands a hidden
\* field's value to onSubmit.
C29_HiddenValueCleared ==
  \A f \in SchemaFields :
    /\ (/\ Did("SET_FIELD_VALUE")
        /\ IsFieldVisible(f, prev.values)
        /\ ~IsFieldVisible(f, state.values))
         => Cleared(state.values, f.id)
    /\ (Did("SUBMIT") /\ last.payload.called /\ ~IsFieldVisible(f, prev.values))
         => Cleared(submitted[Len(submitted)], f.id)

(***************************************************************************)
(* The per-field metadata actions, under Spec.                             *)
(***************************************************************************)
\* The FieldState key the last action addressed.
LastKey == getFieldKey(last.payload.fieldId, last.payload.instanceIndex)

\* The last action replaced the addressed FieldState by merged, materialising
\* it if need be, and changed nothing else.
OnlyFieldBecame(merged) ==
  /\ DOMAIN state.fields = DOMAIN prev.fields \cup {LastKey}
  /\ state.fields[LastKey] = merged
  /\ \A k \in DOMAIN prev.fields \ {LastKey} : state.fields[k] = prev.fields[k]
  /\ [state EXCEPT !.fields = prev.fields] = prev

TouchedMerge ==
  Did("SET_FIELD_TOUCHED") =>
    OnlyFieldBecame([FieldOrDefault(prev.fields, LastKey) EXCEPT
                       !.touched = last.payload.touched])

ValidatingMerge ==
  Did("SET_FIELD_VALIDATING") =>
    OnlyFieldBecame([FieldOrDefault(prev.fields, LastKey) EXCEPT
                       !.validating = last.payload.validating])

\* C30 as stated: SET_FIELD_TOUCHED, SET_FIELD_VALIDATING and SET_FIELD_ERROR
\* each change only the attribute they name in the addressed FieldState.
C30_MetadataMerge_Original ==
  /\ TouchedMerge
  /\ ValidatingMerge
  /\ Did("SET_FIELD_ERROR") =>
       OnlyFieldBecame([FieldOrDefault(prev.fields, LastKey) EXCEPT
                          !.errors = last.payload.errors])

\* C30: SET_FIELD_TOUCHED and SET_FIELD_VALIDATING change only touched and
\* validating of the addressed FieldState, SET_FIELD_ERROR sets its errors and
\* sets validating to false; the FieldState is the default one if none
\* existed, and every other FieldState, values, initialValues and the rest
\* of the state are unchanged.
C30_MetadataMerge ==
  /\ TouchedMerge
  /\ ValidatingMerge
  /\ Did("SET_FIELD_ERROR") =>
       OnlyFieldBecame([FieldOrDefault(prev.fields, LastKey) EXCEPT
                          !.errors = last.payload.errors,
                          !.validating = FALSE])

\* Errors were set on a field that was validating.
C30_Witness ==
  /\ Did("SET_FIELD_ERROR")
  /\ LastKey \in DOMAIN prev.fields
  /\ prev.fields[LastKey].validating
  /\ ~state.fields[LastKey].validating
  /\ state.fields[LastKey].errors # <<>>

(***************************************************************************)
(* Values of fields addressed with an instance index, under Spec.          *)
(***************************************************************************)
\* useField: the field's schema, the first one with this id
FieldSchemaOf(sch, fieldId) ==
  LET found == {i \in 1..Len(allFields(sch)) : allFields(sch)[i].id = fieldId}
  IN IF found = {} THEN EmptyObj
     ELSE allFields(sch)[CHOOSE i \in found : \A j \in found : i <= j]

\* useField(fieldId, instanceIndex).value:
\* state.values[fieldId] ?? fieldSchema?.defaultValue ?? null
useFieldValue(s, sch, fieldId, instanceIndex) ==
  Coalesce(Coalesce(Get(s.values, fieldId),
                    IF "defaultValue" \in DOMAIN FieldSchemaOf(sch, fieldId)
                      THEN FieldSchemaOf(sch, fieldId).defaultValue
                      ELSE Undefined),
           Null)

\* The instances a reader can ask about.
ReadIndexes == {0, 1, 2}

\* C31: SET_FIELD_VALUE(f, v, i) with an instance index stores v under the
\* scoped key f[i]: the value read for (f, j), j # i, is unchanged, and so is
\* the unscoped entry values[f].
C31_InstanceValuesIndependent ==
  (Did("SET_FIELD_VALUE") /\ last.payload.instanceIndex # NoIndex) =>
    LET f == last.payload.fieldId
        i == last.payload.instanceIndex
    IN /\ Get(state.values, getFieldKey(f, i)) = last.payload.value
       /\ Get(state.values, f) = Get(prev.values, f)
       /\ \A j \in ReadIndexes \ {i} :
            useFieldValue(state, schema, f, j) = useFieldValue(prev, schema, f, j)

(***************************************************************************)
(* A form whose only section is repeatable and whose field carries a rule: *)
(* RepeatableSection renders the instances, the form is submitted.         *)
(***************************************************************************)
instanceSchema ==
  [sections |-> <<
     [id |-> "attendees",
      repeatable |-> TRUE,
      minInstances |-> 0,
      maxInstances |-> 3,
      fields |-> <<[id |-> "productId",
                    validation |-> <<Rule("required", Undefined, "")>>]>>]
   >>]

\* The initialValues the form is mounted with: none, or a draft that holds
\* values of instances.
InstanceInitialValues ==
  {EmptyObj,
   [k \in {"productId[1]"} |-> Str(S_widget)],
   [k \in {"productId[0]", "productId[1]"} |->
      IF k = "productId[0]" THEN Str(S_gadget) ELSE Str(S_widget)]}

InstancesFormInit ==
  /\ schema = instanceSchema
  /\ state \in {createInitialState(iv) : iv \in InstanceInitialValues}
  /\ last = Action("INIT", EmptyObj)
  /\ prev = state
  /\ submitted = <<>>
  /\ steps = 0

InitInstances == InstancesFormInit /\ AsyncInit /\ AutosaveIdle /\ CallIdle

\* The form's submit event.
SubmitInstances ==
  /\ steps < MaxSectionSteps
  /\ LET r == handleSubmit(state, schema)
     IN /\ state' = r.state
        /\ submitted' = IF r.called THEN Append(submitted, state.values) ELSE submitted
        /\ last' = Action("SUBMIT", [called |-> r.called])
        /\ prev' = state
  /\ steps' = steps + 1
  /\ UNCHANGED schema
  /\ UNCHANGED exceptForm

InstancesNext ==
  \/ handleAdd
  \/ handleRemove
  \/ handleChange
  \/ SubmitInstances

SpecInstances == InitInstances /\ [][InstancesNext]_vars

\* getInstanceValues(instanceIndex): the section's fields with the values
\* stored under their scoped ids
getInstanceValues(s, instanceIndex) ==
  [f \in {section.fields[n].id : n \in 1..Len(section.fields)} |->
     Get(s.values, getScopedFieldId(instanceIndex, f))]

\* What the instance rendered at a position shows: for each field the value
\* and the FieldState useField finds under the scoped id.
Shown(s, position) ==
  [f \in {section.fields[n].id : n \in 1..Len(section.fields)} |->
     [value |-> useFieldValue(s, schema, getScopedFieldId(position, f), NoIndex),
      fieldState |-> FieldOrDefault(s.fields, getScopedFieldId(position, f))]]

\* C32: after instance i of N (i < N - 1) is removed through
\* RepeatableSection, the instance rendered at each position j >= i shows
\* what was shown at position j + 1 before, and what the removed instance
\* showed (when no other instance showed the same) is shown nowhere.
C32_RemovalShiftsData ==
  LET N == Len(InstancesOf(prev, section.id))
      i == last.payload.instanceIndex
  IN (Did("REMOVE_SECTION_INSTANCE") /\ 0 <= i /\ i < N - 1) =>
       /\ \A j \in i..(N - 2) : Shown(state, j) = Shown(prev, j + 1)
       /\ (\A j \in (0..(N - 1)) \ {i} : Shown(prev, j) # Shown(prev, i))
            => \A j \in 0..(N - 2) : Shown(state, j) # Shown(prev, i)

\* The fields RepeatableSection renders: one per instance and section field,
\* under its scoped id.
RenderedFields(s) ==
  {[id |-> getScopedFieldId(j, section.fields[n].id), field |-> section.fields[n]] :
     j \in 0..(Len(InstancesOf(s, section.id)) - 1), n \in 1..Len(section.fields)}

\* The result of validating a rendered field against the value stored under
\* its scoped id.
RenderedResult(s, rf) ==
  validateFieldSync(rf.id, Get(s.values, rf.id), FieldRules(rf.field), s.values)

\* C33: on submit each field of a repeatable section is validated once per
\* existing instance against the value under its scoped key: onSubmit is
\* called iff every rendered field satisfies its rules (so a section without
\* instances keeps nothing from being submitted), and otherwise the errors
\* of the failing instances are stored under their scoped keys.
C33_InstancesValidated ==
  Did("SUBMIT") =>
    /\ last.payload.called <=> \A rf \in RenderedFields(prev) : RenderedResult(prev, rf).isValid
    /\ ~last.payload.called =>
         \A rf \in RenderedFields(prev) :
           ~RenderedResult(prev, rf).isValid =>
             ErrorsOf(state, rf.id) = RenderedResult(prev, rf).errors

(***************************************************************************)
(* resolveConflict() of useAutosave, under SpecAutosave.                   *)
(***************************************************************************)
\* C34: resolveConflict() called while in conflict clears hasConflict and
\* serverVersion and invokes onSave exactly once, with the current values,
\* whatever is pending or in flight.
C34_ResolveConflictSavesOnce ==
  (event.type = "resolveConflict" /\ event.hadConflict) =>
    /\ ~hook.hasConflict
    /\ hook.serverVersion = Null
    /\ event.invoked
    /\ LastInvocation.by = "resolveConflict"
    /\ LastInvocation.values = props.values
    /\ LastInvocation.status = "inflight"

\* The save of useAutosave has just completed: onSave resolved (with or
\* without a version conflict) or rejected.
SaveCompleted == host = "useAutosave" /\ event.type \in {"resolved", "rejected"}

\* The autosave effect has run after the completion and set a timer: its
\* callback closes over the save made by the render with isSaving false.
TimerSetOnCompletion ==
  /\ timeoutRef.armed
  /\ ~timeoutRef.isSaving
  /\ timeoutRef.due = clock + AutosaveDebounceMs

\* C35: with autosave enabled and the form dirty, the completion of a save
\* (success, conflict or error) does not by itself schedule another save
\* while the values remain unchanged, so that onSave is invoked once for the
\* final snapshot.
C35_CompletionSchedulesNothing ==
  SaveCompleted => ~TimerSetOnCompletion

(***************************************************************************)
(* The promises of validate, under fair timers and a network that always   *)
(* responds: a timer that is due fires, a request in flight is answered,   *)
(* and the clock goes on.                                                  *)
(***************************************************************************)
SpecAsyncFair ==
  /\ InitAsync
  /\ [][AsyncNext]_vars
  /\ WF_vars(TimerFire)
  /\ WF_vars(Respond)
  /\ WF_vars(Tick)

Settled(k) == Len(calls) >= k /\ calls[k].promise # "pending"

\* C36: every promise returned by a validate call eventually settles, a call
\* superseded before its timer fired and a call cancelled through cancel()
\* included (stated for the calls whose delay ends within the clock's range).
C36_PromisesSettle ==
  \A k \in 1..MaxCalls :
    (Len(calls) >= k /\ calls[k].at + DebounceMs <= MaxTime) ~> Settled(k)

(***************************************************************************)
(* isValidating of useFieldValidation, under SpecFieldValidation.          *)
(***************************************************************************)
\* An async validation of the field is scheduled (its timer is set) or in
\* flight (its request has not ended).
AsyncValidationPending ==
  \/ timers # {}
  \/ \E i \in 1..Len(requests) : requests[i].status \in {"inflight", "body"}

\* C37: isValidating is false in every state in which no async validation
\* of the field is scheduled or in flight.
C37_ValidatingOnlyWhilePending ==
  Called("useFieldValidation") => (~AsyncValidationPending => ~returned.isValidating)

(***************************************************************************)
(* Invariants of the reducer's state, under Spec.                          *)
(***************************************************************************)
\* C38: hasConflict = false implies that localValues and savedValues are
\* both absent, so a RESOLVE_CONFLICT reduced while no conflict exists
\* leaves values unchanged.
C38_NoConflictNoSnapshots ==
  /\ ~state.autosave.hasConflict =>
       /\ state.autosave.localValues = Null
       /\ state.autosave.savedValues = Null
  /\ (Did("RESOLVE_CONFLICT") /\ ~prev.autosave.hasConflict) => state.values = prev.values

\* The field's entry in values differs (by !==) from its entry in initialValues.
DiffersFromBaseline(s, key) == ~StrictEq(Get(s.values, key), Get(s.initialValues, key))

\* C39: each existing FieldState's dirty flag is true iff the field's entry
\* in values differs from its entry in initialValues, so the selector isDirty
\* is true iff some field's value differs from the baseline.
C39_DirtyIffDiffers ==
  /\ \A key \in DOMAIN state.fields :
       state.fields[key].dirty <=> DiffersFromBaseline(state, key)
  /\ selIsDirty(state) <=>
       \E key \in DOMAIN state.values \cup DOMAIN state.initialValues :
         DiffersFromBaseline(state, key)

=============================================================================
